---- MODULE Spec2Model ----
(***************************************************************************)
(* Model of the UV oven controller of src/main.py: the super loop          *)
(* (main.py:261-715) as a state machine.  One step of the model is one     *)
(* iteration of the loop ("tick"): the inputs are sampled (rotation delta, *)
(* lid switch, clock, button), the lid interlock is evaluated, and the     *)
(* handler of the active mode runs to its end.                             *)
(*                                                                         *)
(* Conventions                                                             *)
(*  - Durations and timestamps are integers in milliseconds; the code      *)
(*    holds seconds as floats (value/1000.0, ticks_diff/1000.0), so a      *)
(*    model duration is 1000 times the code's *_sec value.                 *)
(*  - uv is the PWM duty in percent (uv.value * 100); uv.off() is duty 0.  *)
(*  - Strings are sequences of one-character strings.                      *)
(*  - The button is observed per tick as "up" (not pressed when read),     *)
(*    "tap" (pressed when read, released before the 600 ms threshold) or   *)
(*    "hold" (pressed and still pressed at the threshold).                 *)
(***************************************************************************)
EXTENDS Integers, Sequences, FiniteSets, TLC

\* ------------------------------------------------------------------------
\* Bounds of the model (not program constants)
\* ------------------------------------------------------------------------
\* largest magnitude of a sampled rotation delta
MaxDelta == 1
\* how many encoder steps a value may be turned away from an anchor value
MaxAdj == 1
\* most steps the operator authors in one program
MaxSteps == 1
\* most programs the store holds
MaxStore == 2

\* ------------------------------------------------------------------------
\* Program constants
\* ------------------------------------------------------------------------
None == -1

MODE_MAIN_MENU == 0
MODE_SIMPLE == 1
MODE_CUSTOM_MENU == 2
MODE_CUSTOM_CREATE == 3

S_IDLE == 0
S_SET_TIME_UNIT == 1
S_SET_TIME == 2
S_SET_INTENS == 3
S_RUNNING == 4
S_DONE == 5

C_MENU_LOAD == 0
C_MENU_CREATE == 1
C_MENU_RUN == 2

C_CREATE_START == 0
C_CREATE_SET_TIME_UNIT == 1
C_CREATE_SET_TIME == 2
C_CREATE_SET_INTENS == 3
C_CREATE_ADD_STEP == 4
C_CREATE_SET_LOOPS == 5
C_CREATE_SET_NAME == 6
C_CREATE_SAVE_PROG == 7

C_RUN_START == 0
C_RUN_STEP == 1
C_RUN_DONE == 2

C_LOAD_SELECT == 0
LOAD_NONE == -1

INT_MIN == 0
INT_MAX == 100
INT_STEP == 1
LOOPS_MIN == 1
LOOPS_MAX == 99
NAME_MIN == 1
NAME_MAX == 99

\* (unit_name, default_value, min_val, max_val), indexed unit_idx + 1
TIME_UNITS ==
  << [name |-> "min:sec", def |-> 60,   min |-> 1,   max |-> 3600],
     [name |-> "hr:min",  def |-> 30,   min |-> 1,   max |-> 1440],
     [name |-> "sec:ms",  def |-> 1000, min |-> 100, max |-> 60000] >>

TIME_STEPS == <<1, 1, 100>>

NumUnits == Len(TIME_UNITS)
NumMainItems == 2
NumCustomItems == 3

\* ------------------------------------------------------------------------
\* Pure helpers
\* ------------------------------------------------------------------------
Max2(a, b) == IF a >= b THEN a ELSE b
Min2(a, b) == IF a <= b THEN a ELSE b

\* a value leaving [lo, hi] re-enters at the other end instead of saturating
ClampWrapping(lo, hi, v) == IF v > hi THEN lo ELSE IF v < lo THEN hi ELSE v

\* max(lo, min(hi, v))
Clamp(lo, hi, v) == Max2(lo, Min2(hi, v))

\* (1 if d > 0 else -1)
Dir(d) == IF d > 0 THEN 1 ELSE -1

UnitDef(u) == TIME_UNITS[u + 1].def
UnitMin(u) == TIME_UNITS[u + 1].min
UnitMax(u) == TIME_UNITS[u + 1].max
UnitStep(u) == TIME_STEPS[u + 1]

\* s_set_value + step * dir clamped to the unit's [min, max]
AdjustTime(u, v, d) == Clamp(UnitMin(u), UnitMax(u), v + UnitStep(u) * Dir(d))

\* AdjustIntens without the clamp
AdjustIntensUnclamped(i, d) == i + INT_STEP * Dir(d)

\* s_set_int + INT_STEP * dir clamped to [INT_MIN, INT_MAX]
AdjustIntens(i, d) == Clamp(INT_MIN, INT_MAX, i + INT_STEP * Dir(d))

\* temp_program_loops + dir clamped to [1, 99]
AdjustLoops(l, d) == Clamp(LOOPS_MIN, LOOPS_MAX, l + Dir(d))

\* (idx + dir) % n, Python's non-negative modulo
Cycle(idx, d, n) == (idx + Dir(d)) % n

\* runtime of a unit/value pair, in milliseconds
ToMillis(u, v) ==
  IF u = 0 THEN v * 1000
  ELSE IF u = 1 THEN v * 60 * 1000
  ELSE IF u = 2 THEN v
  ELSE 0

\* get_duration_sec with the sec:ms value taken as seconds (the /1000.0 of
\* main.py:138 left out)
get_duration_secWholeSeconds(step) ==
  IF step.u = 1 THEN step.v * 60 * 1000 ELSE step.v * 1000

\* get_duration_sec(step), in milliseconds
get_duration_sec(step) == ToMillis(step.u, step.v)

\* ---- names: f"P-{p_num:02d}" and int(name.split('-')[1]) -----------------
DigitChars == <<"0", "1", "2", "3", "4", "5", "6", "7", "8", "9">>

RECURSIVE Digits(_)
Digits(n) == IF n < 10 THEN <<DigitChars[n + 1]>>
             ELSE Digits(n \div 10) \o <<DigitChars[(n % 10) + 1]>>

\* f"{n:02d}"
Fmt02d(n) == IF n < 10 THEN <<"0">> \o Digits(n) ELSE Digits(n)

\* f"P-{p_num:02d}"
FmtName(p_num) == <<"P", "-">> \o Fmt02d(p_num)

IsDigit(c) == \E k \in 1..10 : DigitChars[k] = c
DigitVal(c) == (CHOOSE k \in 1..10 : DigitChars[k] = c) - 1

RECURSIVE IntOf(_)
IntOf(ds) == IF Len(ds) = 0 THEN 0
             ELSE IntOf(SubSeq(ds, 1, Len(ds) - 1)) * 10 + DigitVal(ds[Len(ds)])

\* positions of '-' in a name
Dashes(name) == {k \in 1..Len(name) : name[k] = "-"}
MinOf(S) == CHOOSE x \in S : \A y \in S : x <= y

\* name.split('-')[1]: the text between the first and the second dash
SplitField1(name) ==
  LET first == MinOf(Dashes(name))
      later == {k \in Dashes(name) : k > first}
      stop  == IF later = {} THEN Len(name) + 1 ELSE MinOf(later)
  IN SubSeq(name, first + 1, stop - 1)

\* try: int(temp_program_name.split('-')[1]) except: 1
ParseNum(name) ==
  IF Dashes(name) = {} THEN 1
  ELSE LET f == SplitField1(name)
       IN IF Len(f) = 0 \/ (\E k \in 1..Len(f) : ~IsDigit(f[k])) THEN 1
          ELSE IntOf(f)

\* the name after one rotation step in C_CREATE_SET_NAME
AdjustName(name, d) == FmtName(Clamp(NAME_MIN, NAME_MAX, ParseNum(name) + Dir(d)))

NAME_NEW == <<"N", "e", "w">>

\* {"name": "New", "loops": 1, "steps": []}
NewProgram == [name |-> NAME_NEW, loops |-> 1, steps |-> <<>>]

\* {} : no program selected, no keys
EmptyProgram == [name |-> <<>>, loops |-> 0, steps |-> <<>>]

\* {} : temp_step before it gets its keys
EmptyStep == [u |-> None, v |-> None, i |-> None]

\* ------------------------------------------------------------------------
\* State
\* ------------------------------------------------------------------------
VARIABLES
  main_state, main_menu_idx, simple_state, custom_menu_idx, create_state,
  run_state, load_state, load_program_idx,
  s_current_time_unit_idx, s_set_value, s_set_int, s_run_duration_sec, s_start_ts,
  saved_programs, current_program, temp_step, temp_program_name, temp_program_loops,
  c_run_duration_sec, c_start_ts, c_run_current_step, c_run_current_loop,
  temp_add_another,
  uv,            \* PWM duty of the UV output, percent
  now,           \* the tick's time.ticks_ms() sample
  is_lid_open,   \* the tick's lid sample
  btn,           \* the button as observed during the tick: "up", "tap", "hold"
  cur_ref,       \* store positions holding the same object as current_program
  temp_cur,      \* position in current_program["steps"] of the temp_step object, 0: none
  temp_store,    \* <<program, step>> store positions of the temp_step object
  run_log,       \* step-executions started by the run in progress or just finished
  programs_file, \* what PROGRAMS_FILE holds: a list of programs, or nothing readable
  running,       \* the super loop is executing (no exception has left it)
  lid_was_open,  \* the flag that makes the indicator code restore the normal colours
  indicator,     \* the colours the NeoPixels are driven with: "normal", "done", "alarm"
  press_spent,   \* the button is still down at the end of the tick, in a press
                 \* that has triggered a transition
  scope          \* the part of the menu the operator works in during the session

vars ==
  << main_state, main_menu_idx, simple_state, custom_menu_idx, create_state,
     run_state, load_state, load_program_idx,
     s_current_time_unit_idx, s_set_value, s_set_int, s_run_duration_sec, s_start_ts,
     saved_programs, current_program, temp_step, temp_program_name, temp_program_loops,
     c_run_duration_sec, c_start_ts, c_run_current_step, c_run_current_loop,
     temp_add_another, uv, now, is_lid_open, btn, cur_ref, temp_cur, temp_store,
     run_log, programs_file, running, lid_was_open, indicator,
     press_spent, scope >>

\* the state as one record, the form the handlers work on
Cur ==
  [ main_state |-> main_state, main_menu_idx |-> main_menu_idx,
    simple_state |-> simple_state, custom_menu_idx |-> custom_menu_idx,
    create_state |-> create_state, run_state |-> run_state,
    load_state |-> load_state, load_program_idx |-> load_program_idx,
    s_current_time_unit_idx |-> s_current_time_unit_idx,
    s_set_value |-> s_set_value, s_set_int |-> s_set_int,
    s_run_duration_sec |-> s_run_duration_sec, s_start_ts |-> s_start_ts,
    saved_programs |-> saved_programs, current_program |-> current_program,
    temp_step |-> temp_step, temp_program_name |-> temp_program_name,
    temp_program_loops |-> temp_program_loops,
    c_run_duration_sec |-> c_run_duration_sec, c_start_ts |-> c_start_ts,
    c_run_current_step |-> c_run_current_step,
    c_run_current_loop |-> c_run_current_loop,
    temp_add_another |-> temp_add_another,
    uv |-> uv, now |-> now, is_lid_open |-> is_lid_open, btn |-> btn,
    cur_ref |-> cur_ref, temp_cur |-> temp_cur, temp_store |-> temp_store,
    run_log |-> run_log, programs_file |-> programs_file, running |-> running,
    lid_was_open |-> lid_was_open, indicator |-> indicator,
    press_spent |-> press_spent,
    scope |-> scope ]

\* the next state is the record r
Becomes(r) ==
  /\ main_state' = r.main_state
  /\ main_menu_idx' = r.main_menu_idx
  /\ simple_state' = r.simple_state
  /\ custom_menu_idx' = r.custom_menu_idx
  /\ create_state' = r.create_state
  /\ run_state' = r.run_state
  /\ load_state' = r.load_state
  /\ load_program_idx' = r.load_program_idx
  /\ s_current_time_unit_idx' = r.s_current_time_unit_idx
  /\ s_set_value' = r.s_set_value
  /\ s_set_int' = r.s_set_int
  /\ s_run_duration_sec' = r.s_run_duration_sec
  /\ s_start_ts' = r.s_start_ts
  /\ saved_programs' = r.saved_programs
  /\ current_program' = r.current_program
  /\ temp_step' = r.temp_step
  /\ temp_program_name' = r.temp_program_name
  /\ temp_program_loops' = r.temp_program_loops
  /\ c_run_duration_sec' = r.c_run_duration_sec
  /\ c_start_ts' = r.c_start_ts
  /\ c_run_current_step' = r.c_run_current_step
  /\ c_run_current_loop' = r.c_run_current_loop
  /\ temp_add_another' = r.temp_add_another
  /\ uv' = r.uv
  /\ now' = r.now
  /\ is_lid_open' = r.is_lid_open
  /\ btn' = r.btn
  /\ cur_ref' = r.cur_ref
  /\ temp_cur' = r.temp_cur
  /\ temp_store' = r.temp_store
  /\ run_log' = r.run_log
  /\ programs_file' = r.programs_file
  /\ running' = r.running
  /\ lid_was_open' = r.lid_was_open
  /\ indicator' = r.indicator
  /\ press_spent' = r.press_spent
  /\ scope' = r.scope

\* btn.is_pressed when the handler reads it
Pressed(s) == s.btn # "up"
\* the press classified by the 600 ms polling loop
LongPress(s) == s.btn = "hold"
ShortPress(s) == s.btn = "tap"

\* ------------------------------------------------------------------------
\* Object identity: Python dicts are shared by reference
\* ------------------------------------------------------------------------
\* current_program[...] = ... : a write to the current program object, seen
\* through every store position that holds the same object
WriteCur(s, p) ==
  [s EXCEPT !.current_program = p,
            !.saved_programs = [k \in 1..Len(s.saved_programs) |->
                                  IF k \in s.cur_ref THEN p ELSE s.saved_programs[k]]]

\* temp_step[...] = ... : a write to the temp_step object, seen through the
\* step lists that hold the same object
WriteTemp(s, t) ==
  LET viaCur == IF s.temp_cur = 0 THEN [s EXCEPT !.temp_step = t]
                ELSE [WriteCur(s, [s.current_program EXCEPT !.steps[s.temp_cur] = t])
                        EXCEPT !.temp_step = t]
  IN [viaCur EXCEPT !.saved_programs =
        [k \in 1..Len(viaCur.saved_programs) |->
           [viaCur.saved_programs[k] EXCEPT !.steps =
              [j \in 1..Len(viaCur.saved_programs[k].steps) |->
                 IF <<k, j>> \in s.temp_store THEN t
                 ELSE viaCur.saved_programs[k].steps[j]]]]]

\* BindTemp assigning the keys of the dict temp_step names instead of binding
\* the name to a new dict
BindTempInPlace(s, t) == WriteTemp(s, t)

\* temp_step = <new dict>
BindTemp(s, t) == [s EXCEPT !.temp_step = t, !.temp_cur = 0, !.temp_store = {}]

\* where the temp_step object stays once current_program names another object
TempLeftInStore(s) ==
  s.temp_store \cup (IF s.temp_cur = 0 THEN {} ELSE {<<k, s.temp_cur>> : k \in s.cur_ref})

\* BindCurNew writing into the object current_program names instead of
\* binding the name to a new one
BindCurNewAliased(s, p) == WriteCur(s, p)

\* current_program = <new dict>
BindCurNew(s, p) ==
  [s EXCEPT !.current_program = p, !.cur_ref = {}, !.temp_cur = 0,
            !.temp_store = TempLeftInStore(s)]

\* current_program = saved_programs[idx]
BindCurStored(s, idx) ==
  LET left == TempLeftInStore(s)
      here == {j \in 1..Len(s.saved_programs[idx + 1].steps) : <<idx + 1, j>> \in left}
  IN [s EXCEPT !.current_program = s.saved_programs[idx + 1],
               !.cur_ref = {idx + 1},
               !.temp_cur = IF here = {} THEN 0 ELSE MinOf(here),
               !.temp_store = left]

\* ------------------------------------------------------------------------
\* The lid interlock (main.py:269-282)
\* ------------------------------------------------------------------------
\* the condition under which an open lid stops a run
LidStops(s) ==
  \/ s.main_state = MODE_SIMPLE /\ s.simple_state = S_RUNNING
  \/ s.main_state = MODE_CUSTOM_MENU /\ s.c_start_ts # None

\* uv.off(); main_state = MODE_MAIN_MENU; simple_state = S_IDLE; c_start_ts = None
EmergencyStop(s) ==
  [s EXCEPT !.uv = 0, !.main_state = MODE_MAIN_MENU, !.simple_state = S_IDLE,
            !.c_start_ts = None]

\* ------------------------------------------------------------------------
\* Main menu (main.py:313-336)
\* ------------------------------------------------------------------------
MainMenuStep(s, d) ==
  LET s1 == IF d # 0
            THEN [s EXCEPT !.main_menu_idx = (s.main_menu_idx + 1) % NumMainItems]
            ELSE s
  IN IF ~Pressed(s1) THEN s1
     ELSE IF s1.is_lid_open THEN s1
     ELSE IF s1.main_menu_idx = 0
          THEN [s1 EXCEPT !.main_state = MODE_SIMPLE, !.simple_state = S_IDLE]
     ELSE IF s1.main_menu_idx = 1
          THEN [s1 EXCEPT !.main_state = MODE_CUSTOM_MENU, !.custom_menu_idx = 0]
     ELSE s1

\* ------------------------------------------------------------------------
\* Simple mode (main.py:339-426)
\* ------------------------------------------------------------------------
SimpleIdleStep(s, d) ==
  IF Pressed(s) /\ ~s.is_lid_open
  THEN [s EXCEPT !.simple_state = S_SET_TIME_UNIT]
  ELSE s

SimpleSetTimeUnitStep(s, d) ==
  LET u  == Cycle(s.s_current_time_unit_idx, d, NumUnits)
      s1 == IF d # 0
            THEN [s EXCEPT !.s_current_time_unit_idx = u, !.s_set_value = UnitDef(u)]
            ELSE s
  IN IF Pressed(s1) THEN [s1 EXCEPT !.simple_state = S_SET_TIME] ELSE s1

SimpleSetTimeStep(s, d) ==
  LET s1 == IF d # 0
            THEN [s EXCEPT !.s_set_value =
                    AdjustTime(s.s_current_time_unit_idx, s.s_set_value, d)]
            ELSE s
  IN IF Pressed(s1) THEN [s1 EXCEPT !.simple_state = S_SET_INTENS] ELSE s1

\* SimpleDuration with the min:sec value taken as minutes
SimpleDurationMinutes(idx, value) ==
  IF idx = 0 THEN value * 60 * 1000
  ELSE IF idx = 1 THEN value * 60 * 1000
  ELSE IF idx = 2 THEN value
  ELSE 0

\* the run's duration for the selected unit (main.py:387-390), in milliseconds
SimpleDuration(idx, value) ==
  IF idx = 0 THEN value * 1000
  ELSE IF idx = 1 THEN value * 60 * 1000
  ELSE IF idx = 2 THEN value
  ELSE 0

\* SimpleSetIntensStep without the lid check of main.py:384
SimpleSetIntensStepAnyLid(s, d) ==
  LET s1 == IF d # 0
            THEN [s EXCEPT !.s_set_int = AdjustIntens(s.s_set_int, d)]
            ELSE s
  IN IF ~Pressed(s1) THEN s1
     ELSE [s1 EXCEPT
             !.s_run_duration_sec = SimpleDuration(s1.s_current_time_unit_idx, s1.s_set_value),
             !.uv = s1.s_set_int,
             !.s_start_ts = s1.now,
             !.simple_state = S_RUNNING]

SimpleSetIntensStep(s, d) ==
  LET s1 == IF d # 0
            THEN [s EXCEPT !.s_set_int = AdjustIntens(s.s_set_int, d)]
            ELSE s
  IN IF ~Pressed(s1) THEN s1
     ELSE IF s1.is_lid_open THEN s1
     ELSE [s1 EXCEPT
             !.s_run_duration_sec =
                IF s1.s_current_time_unit_idx \in 0..2
                THEN SimpleDuration(s1.s_current_time_unit_idx, s1.s_set_value)
                ELSE s1.s_run_duration_sec,
             !.uv = s1.s_set_int,
             !.s_start_ts = s1.now,
             !.simple_state = S_RUNNING]

\* remain_sec = max(0, duration - elapsed), in milliseconds
Remaining(duration, start, t) == Max2(0, duration - (t - start))

\* long-press cancel of a Simple run (main.py:403-411)
SimpleCancel(s) ==
  [s EXCEPT !.uv = 0, !.s_start_ts = None, !.simple_state = S_IDLE,
            !.main_state = MODE_MAIN_MENU]

\* SimpleExpire without the uv.off() of main.py:414
SimpleExpireUvOn(s) ==
  [s EXCEPT !.s_start_ts = None, !.simple_state = S_DONE]

\* expiry of a Simple run (main.py:413-418)
SimpleExpire(s) ==
  [s EXCEPT !.uv = 0, !.s_start_ts = None, !.simple_state = S_DONE]

SimpleRunningStep(s, d) ==
  LET remain_sec == Remaining(s.s_run_duration_sec, s.s_start_ts, s.now)
      s1 == IF LongPress(s) THEN SimpleCancel(s) ELSE s
  IN IF remain_sec <= 0 THEN SimpleExpire(s1) ELSE s1

SimpleDoneStep(s, d) ==
  IF Pressed(s)
  THEN [s EXCEPT !.simple_state = S_IDLE, !.main_state = MODE_MAIN_MENU,
                 !.lid_was_open = TRUE]
  ELSE s

\* ------------------------------------------------------------------------
\* Custom menu (main.py:429-588)
\* ------------------------------------------------------------------------
\* one step-execution as the run log records it
LogEntry(s, step) ==
  [loop |-> s.c_run_current_loop, step |-> s.c_run_current_step,
   dur |-> get_duration_sec(step), duty |-> step.i]

\* start the step the cursor points at: new duty, new duration, new timestamp
\* (main.py:470-473, 476-479, 551-554)
StartStep(s) ==
  LET new_step == s.current_program.steps[s.c_run_current_step + 1]
  IN [s EXCEPT !.uv = new_step.i,
               !.c_run_duration_sec = get_duration_sec(new_step),
               !.c_start_ts = s.now,
               !.run_log = Append(s.run_log, LogEntry(s, new_step))]

\* long-press cancel of a custom run (main.py:445-452)
CustomCancel(s) ==
  [s EXCEPT !.uv = 0, !.c_start_ts = None, !.main_state = MODE_MAIN_MENU]

\* program finished (main.py:462-467)
CustomFinish(s) ==
  [s EXCEPT !.uv = 0, !.c_start_ts = None, !.run_state = C_RUN_DONE]

\* CustomAdvance with the loop test of main.py:460 one loop late
CustomAdvanceLoopLong(s) ==
  LET s1 == [s EXCEPT !.c_run_current_step = s.c_run_current_step + 1]
  IN IF s1.c_run_current_step >= Len(s1.current_program.steps)
     THEN LET s2 == [s1 EXCEPT !.c_run_current_step = 0,
                               !.c_run_current_loop = s1.c_run_current_loop + 1]
          IN IF s2.c_run_current_loop > s2.current_program.loops + 1
             THEN CustomFinish(s2)
             ELSE StartStep(s2)
     ELSE StartStep(s1)

\* CustomAdvance with the loop test of main.py:460 as >= instead of >
CustomAdvanceLoopShort(s) ==
  LET s1 == [s EXCEPT !.c_run_current_step = s.c_run_current_step + 1]
  IN IF s1.c_run_current_step >= Len(s1.current_program.steps)
     THEN LET s2 == [s1 EXCEPT !.c_run_current_step = 0,
                               !.c_run_current_loop = s1.c_run_current_loop + 1]
          IN IF s2.c_run_current_loop >= s2.current_program.loops
             THEN CustomFinish(s2)
             ELSE StartStep(s2)
     ELSE StartStep(s1)

\* step expiry: next step, next loop or finish (main.py:454-479)
CustomAdvance(s) ==
  LET s1 == [s EXCEPT !.c_run_current_step = s.c_run_current_step + 1]
  IN IF s1.c_run_current_step >= Len(s1.current_program.steps)
     THEN LET s2 == [s1 EXCEPT !.c_run_current_step = 0,
                               !.c_run_current_loop = s1.c_run_current_loop + 1]
          IN IF s2.c_run_current_loop > s2.current_program.loops
             THEN CustomFinish(s2)
             ELSE StartStep(s2)
     ELSE StartStep(s1)

\* the run drive (main.py:432-479)
CustomRunStep(s, d) ==
  LET remain_sec == Remaining(s.c_run_duration_sec, s.c_start_ts, s.now)
      s1 == IF LongPress(s) THEN CustomCancel(s) ELSE s
  IN IF remain_sec <= 0 THEN CustomAdvance(s1) ELSE s1

\* acknowledge a finished run (main.py:482-488)
CustomRunDoneStep(s, d) ==
  IF Pressed(s)
  THEN [s EXCEPT !.run_state = C_RUN_START, !.main_state = MODE_MAIN_MENU,
                 !.lid_was_open = TRUE]
  ELSE s

\* menu item Load (main.py:519-529)
MenuLoad(s) ==
  LET s1 == [s EXCEPT !.load_state = C_LOAD_SELECT, !.load_program_idx = 0]
  IN IF Len(s1.saved_programs) = 0 THEN [s1 EXCEPT !.load_state = LOAD_NONE] ELSE s1

\* menu item Create (main.py:531-537)
MenuCreate(s) ==
  BindTemp(BindCurNew([s EXCEPT !.main_state = MODE_CUSTOM_CREATE,
                                !.create_state = C_CREATE_START],
                      NewProgram),
           EmptyStep)

\* menu item Run (main.py:539-554)
MenuRun(s) ==
  IF Len(s.current_program.steps) = 0 THEN s
  ELSE StartStep([s EXCEPT !.run_state = C_RUN_START, !.c_run_current_step = 0,
                           !.c_run_current_loop = 1, !.run_log = <<>>])

\* menu navigation (main.py:492-554); skip: the handler left the tick by continue
CustomNavStep(s, d) ==
  LET s1 == IF d # 0
            THEN [s EXCEPT !.custom_menu_idx = Cycle(s.custom_menu_idx, d, NumCustomItems)]
            ELSE s
  IN IF ~Pressed(s1) THEN [st |-> s1, skip |-> FALSE]
     ELSE IF LongPress(s1)
          THEN [st |-> [s1 EXCEPT !.main_state = MODE_MAIN_MENU], skip |-> FALSE]
     ELSE IF s1.is_lid_open THEN [st |-> s1, skip |-> TRUE]
     ELSE IF s1.custom_menu_idx = C_MENU_LOAD THEN [st |-> MenuLoad(s1), skip |-> FALSE]
     ELSE IF s1.custom_menu_idx = C_MENU_CREATE THEN [st |-> MenuCreate(s1), skip |-> FALSE]
     ELSE IF s1.custom_menu_idx = C_MENU_RUN THEN [st |-> MenuRun(s1), skip |-> FALSE]
     ELSE [st |-> s1, skip |-> FALSE]

\* the Load sub-state without the exit by long press
LoadStepNoExit(s, d) ==
  IF s.load_state # C_LOAD_SELECT THEN s
  ELSE
    LET n  == Len(s.saved_programs)
        s1 == IF d # 0 /\ n > 0
              THEN [s EXCEPT !.load_program_idx = Cycle(s.load_program_idx, d, n)]
              ELSE s
    IN IF ~Pressed(s1) THEN s1
       ELSE IF LongPress(s1) THEN s1
       ELSE IF n > 0
            THEN [BindCurStored(s1, s1.load_program_idx) EXCEPT !.load_state = LOAD_NONE]
       ELSE s1

\* the Load sub-state (main.py:558-588)
LoadStep(s, d) ==
  IF s.load_state # C_LOAD_SELECT THEN s
  ELSE
    LET n  == Len(s.saved_programs)
        s1 == IF d # 0 /\ n > 0
              THEN [s EXCEPT !.load_program_idx = Cycle(s.load_program_idx, d, n)]
              ELSE s
    IN IF ~Pressed(s1) THEN s1
       ELSE IF LongPress(s1) THEN [s1 EXCEPT !.load_state = LOAD_NONE]
       ELSE IF n > 0
            THEN [BindCurStored(s1, s1.load_program_idx) EXCEPT !.load_state = LOAD_NONE]
       ELSE s1

\* the chain of the Custom menu with the navigation tested before the run
CustomBranchNavFirst(s) ==
  IF s.load_state = LOAD_NONE THEN "nav"
  ELSE IF s.c_start_ts # None THEN "run"
  ELSE IF s.run_state = C_RUN_DONE THEN "done"
  ELSE "none"

\* which branch of the if/elif chain of the Custom menu runs (main.py:432, 482, 492)
CustomBranch(s) ==
  IF s.c_start_ts # None THEN "run"
  ELSE IF s.run_state = C_RUN_DONE THEN "done"
  ELSE IF s.load_state = LOAD_NONE THEN "nav"
  ELSE "none"

\* the button as the Load block reads it after the branch before it has run:
\* the navigation handler returns with the button released, the run handlers
\* return while a held button is still down
SecondRead(s, branch) ==
  IF branch = "none" THEN s.btn
  ELSE IF branch = "nav" THEN (IF Pressed(s) THEN "up" ELSE s.btn)
  ELSE IF s.btn = "hold" THEN "hold" ELSE "up"

\* the whole Custom-menu handler: one branch of the chain, then the Load block
CustomMenuStep(s, d) ==
  LET branch == CustomBranch(s)
      first  == IF branch = "run" THEN [st |-> CustomRunStep(s, d), skip |-> FALSE]
                ELSE IF branch = "done" THEN [st |-> CustomRunDoneStep(s, d), skip |-> FALSE]
                ELSE IF branch = "nav" THEN CustomNavStep(s, d)
                ELSE [st |-> s, skip |-> FALSE]
  IN IF first.skip \/ first.st.load_state = LOAD_NONE THEN first.st
     ELSE [LoadStep([first.st EXCEPT !.btn = SecondRead(s, branch)], d)
             EXCEPT !.btn = s.btn]

\* ------------------------------------------------------------------------
\* Create wizard (main.py:592-714)
\* ------------------------------------------------------------------------
RECURSIVE LowestUnused(_, _)
\* p_num = 1; while f"P-{p_num:02d}" in p_names: p_num += 1
LowestUnused(p_names, p_num) ==
  IF FmtName(p_num) \in p_names THEN LowestUnused(p_names, p_num + 1) ELSE p_num

StoreNames(store) == {store[k].name : k \in 1..Len(store)}

\* found_idx of the save loop, 1-based; 0: not found (main.py:667-670)
FoundIdx(store, name) ==
  LET hits == {k \in 1..Len(store) : store[k].name = name}
  IN IF hits = {} THEN 0 ELSE MinOf(hits)

\* PROGRAMS_FILE missing, or holding what json.load cannot read
Unreadable == [readable |-> FALSE, programs |-> << >>]

\* PROGRAMS_FILE holding the JSON text of a list of programs
FileOf(store) == [readable |-> TRUE, programs |-> store]

\* load_programs_from_file (main.py:112-121): [] when open or json.load raises
load_programs_from_file(file) ==
  IF file.readable THEN file.programs ELSE << >>

\* how the write of the file ends: written; open(PROGRAMS_FILE, 'w') raises and
\* the file is left as it was; json.dump raises on the truncated file
SaveOutcomes == {"saved", "open_failed", "dump_failed"}

WrittenFile(s, io) ==
  IF io = "saved" THEN FileOf(s.saved_programs)
  ELSE IF io = "open_failed" THEN s.programs_file
  ELSE Unreadable

\* save_programs_to_file without the try/except: the exception leaves the loop
save_programs_to_fileUncaught(s, io) ==
  [s EXCEPT !.programs_file = WrittenFile(s, io), !.running = (io = "saved")]

\* save_programs_to_file (main.py:123-130): the exception is caught and printed
save_programs_to_file(s, io) ==
  [s EXCEPT !.programs_file = WrittenFile(s, io)]

\* SaveProgram without the search by name: the program is always appended
SaveProgramAppend(store, prog) == Append(store, prog)

\* the store after the save (main.py:671-672)
SaveProgram(store, prog) ==
  LET found_idx == FoundIdx(store, prog.name)
  IN IF found_idx # 0 THEN [store EXCEPT ![found_idx] = prog]
     ELSE Append(store, prog)

\* C_CREATE_SAVE_PROG confirm (main.py:665-679)
CreateSave(s, io) ==
  LET found_idx == FoundIdx(s.saved_programs, s.current_program.name)
      at == IF found_idx # 0 THEN found_idx ELSE Len(s.saved_programs) + 1
      s1 == [s EXCEPT !.saved_programs = SaveProgram(s.saved_programs, s.current_program),
                      !.cur_ref = s.cur_ref \cup {at},
                      !.temp_store = {e \in s.temp_store : e[1] # at}]
      s2 == save_programs_to_file(s1, io)
  IN IF ~s2.running THEN s2
     ELSE [s2 EXCEPT !.main_state = MODE_CUSTOM_MENU, !.custom_menu_idx = 0]

\* C_CREATE_SET_INTENS confirm (main.py:633-638)
CreateAppendStep(s) ==
  LET s1 == WriteTemp(s, [s.temp_step EXCEPT !.i = s.s_set_int])
      s2 == WriteCur(s1, [s1.current_program EXCEPT
                            !.steps = Append(s1.current_program.steps, s1.temp_step)])
  IN [s2 EXCEPT !.temp_cur = Len(s2.current_program.steps),
                !.create_state = C_CREATE_ADD_STEP,
                !.temp_add_another = TRUE]

\* short press in the wizard (main.py:613-679)
CreateShortPress(s, io) ==
  IF s.create_state = C_CREATE_START
  THEN [s EXCEPT !.create_state = C_CREATE_SET_TIME_UNIT,
                 !.s_current_time_unit_idx = 0, !.s_set_value = UnitDef(0)]
  ELSE IF s.create_state = C_CREATE_SET_TIME_UNIT
  THEN BindTemp([s EXCEPT !.create_state = C_CREATE_SET_TIME],
                [u |-> s.s_current_time_unit_idx, v |-> s.s_set_value, i |-> None])
  ELSE IF s.create_state = C_CREATE_SET_TIME
  THEN [WriteTemp(s, [s.temp_step EXCEPT !.v = s.s_set_value])
          EXCEPT !.create_state = C_CREATE_SET_INTENS, !.s_set_int = 50]
  ELSE IF s.create_state = C_CREATE_SET_INTENS
  THEN CreateAppendStep(s)
  ELSE IF s.create_state = C_CREATE_ADD_STEP
  THEN IF s.temp_add_another
       THEN [s EXCEPT !.create_state = C_CREATE_SET_TIME_UNIT,
                      !.s_current_time_unit_idx = 0, !.s_set_value = UnitDef(0)]
       ELSE [s EXCEPT !.create_state = C_CREATE_SET_LOOPS, !.temp_program_loops = 1]
  ELSE IF s.create_state = C_CREATE_SET_LOOPS
  THEN [WriteCur(s, [s.current_program EXCEPT !.loops = s.temp_program_loops])
          EXCEPT !.create_state = C_CREATE_SET_NAME,
                 !.temp_program_name =
                    FmtName(LowestUnused(StoreNames(s.saved_programs), 1))]
  ELSE IF s.create_state = C_CREATE_SET_NAME
  THEN [WriteCur(s, [s.current_program EXCEPT !.name = s.temp_program_name])
          EXCEPT !.create_state = C_CREATE_SAVE_PROG]
  ELSE IF s.create_state = C_CREATE_SAVE_PROG
  THEN CreateSave(s, io)
  ELSE s

\* button handling of the wizard (main.py:595-679)
CreatePressStep(s, io) ==
  IF LongPress(s)
  THEN [s EXCEPT !.main_state = MODE_CUSTOM_MENU, !.create_state = C_CREATE_START]
  ELSE CreateShortPress(s, io)

\* rotation handling of the wizard (main.py:682-714)
CreateRotateStep(s, d) ==
  IF s.create_state = C_CREATE_SET_TIME_UNIT
  THEN LET u == Cycle(s.s_current_time_unit_idx, d, NumUnits)
       IN [s EXCEPT !.s_current_time_unit_idx = u, !.s_set_value = UnitDef(u)]
  ELSE IF s.create_state = C_CREATE_SET_TIME
  THEN [s EXCEPT !.s_set_value = AdjustTime(s.temp_step.u, s.s_set_value, d)]
  ELSE IF s.create_state = C_CREATE_SET_INTENS
  THEN [s EXCEPT !.s_set_int = AdjustIntens(s.s_set_int, d)]
  ELSE IF s.create_state = C_CREATE_ADD_STEP
  THEN [s EXCEPT !.temp_add_another = ~s.temp_add_another]
  ELSE IF s.create_state = C_CREATE_SET_LOOPS
  THEN [s EXCEPT !.temp_program_loops = AdjustLoops(s.temp_program_loops, d)]
  ELSE IF s.create_state = C_CREATE_SET_NAME
  THEN [s EXCEPT !.temp_program_name = AdjustName(s.temp_program_name, d)]
  ELSE s

\* the whole wizard handler: if btn.is_pressed ... elif d != 0 ...
CreateStep(s, d, io) ==
  IF Pressed(s) THEN CreatePressStep(s, io)
  ELSE IF d # 0 THEN CreateRotateStep(s, d)
  ELSE s

\* ------------------------------------------------------------------------
\* The environment: inputs of one tick, and the part of the value space explored
\* ------------------------------------------------------------------------
Deltas == (0 - MaxDelta)..MaxDelta
Buttons == {"up", "tap", "hold"}

\* set values and intensities of the worked scenarios
ScenarioValues == {5, 300}
ScenarioIntens == {80}

Near(v, a, step) == v - a <= MaxAdj * step /\ a - v <= MaxAdj * step

\* the values of unit u that the model explores: those within MaxAdj encoder
\* steps of the default, the minimum or the maximum, and the scenario values
ValueExplored(u, v) ==
  \/ Near(v, UnitDef(u), UnitStep(u))
  \/ Near(v, UnitMin(u), UnitStep(u))
  \/ Near(v, UnitMax(u), UnitStep(u))
  \/ u = 0 /\ v \in ScenarioValues

IntensExplored(i) ==
  Near(i, 50, INT_STEP) \/ Near(i, INT_MIN, INT_STEP) \/ Near(i, INT_MAX, INT_STEP)
    \/ i \in ScenarioIntens

LoopsExplored(l) == Near(l, LOOPS_MIN, 1) \/ Near(l, LOOPS_MAX, 1)

NameExplored(name) ==
  LET n == ParseNum(name)
  IN n <= NAME_MIN + MaxAdj + MaxStore \/ Near(n, NAME_MAX, 1)

\* The sub-machines of the controller are independent of each other, so the
\* reachable states are close to the product of theirs.  A session explores
\* one part of the menu: the Simple mode, the Custom menu with its runs, or
\* the Custom menu with the Create wizard; a wizard session is followed up to
\* the tick that leaves the wizard (save or cancel), which closes it; from the
\* Custom menu a closed session only returns to the main menu.  A session
\* that adjusts values ("adjust") is followed up to the tick that leaves the
\* value screens.  In a wizard session the steps are authored with the
\* default value of the unit and the default intensity; the dialling of values
\* is explored by the sessions that adjust values.
Scopes == {"simple", "run", "create"}

\* a screen on which a rotation changes a value
OnValueScreen(r) ==
  \/ r.main_state = MODE_SIMPLE /\ r.simple_state \in {S_SET_TIME, S_SET_INTENS}
  \/ r.main_state = MODE_CUSTOM_CREATE
       /\ r.create_state \in {C_CREATE_SET_TIME, C_CREATE_SET_INTENS,
                              C_CREATE_SET_LOOPS, C_CREATE_SET_NAME}

\* a session that authors a program ("author") dials the default of the unit
\* or one encoder step more, and the default intensity or one step more, and
\* authors one step more than the other sessions
AuthoredValues(u) == {UnitDef(u), UnitDef(u) + UnitStep(u)}
AuthoredIntens == {50, 50 + INT_STEP}
MaxAuthored == MaxSteps + 1

InScope(r) ==
  \/ r.scope = "simple" /\ r.main_state \in {MODE_MAIN_MENU, MODE_SIMPLE}
  \/ r.scope = "run" /\ r.main_state \in {MODE_MAIN_MENU, MODE_CUSTOM_MENU}
  \/ r.scope = "create"
       /\ r.main_state \in {MODE_MAIN_MENU, MODE_CUSTOM_MENU, MODE_CUSTOM_CREATE}
       /\ r.c_start_ts = None
  \/ r.scope = "adjust" /\ OnValueScreen(r)
  \/ r.scope \in {"author", "store"}
       /\ r.main_state \in {MODE_CUSTOM_MENU, MODE_CUSTOM_CREATE}
  \/ r.scope = "closed"

\* the step from state s to state r stays within the explored part
WithinBounds(s, r) ==
  /\ IF s.scope = "closed"
     THEN s.main_state = MODE_CUSTOM_MENU /\ r.main_state = MODE_MAIN_MENU
     ELSE TRUE
  /\ InScope(r)
  /\ IF r.s_set_value = s.s_set_value
          /\ r.s_current_time_unit_idx = s.s_current_time_unit_idx
     THEN TRUE
     ELSE IF r.scope = "create"
     THEN r.s_set_value = UnitDef(r.s_current_time_unit_idx)
     ELSE IF r.scope = "author"
     THEN r.s_set_value \in AuthoredValues(r.s_current_time_unit_idx)
     ELSE ValueExplored(r.s_current_time_unit_idx, r.s_set_value)
  /\ IF r.s_set_int = s.s_set_int THEN TRUE
     ELSE IF r.scope = "create" THEN r.s_set_int = 50
     ELSE IF r.scope = "author" THEN r.s_set_int \in AuthoredIntens
     ELSE IntensExplored(r.s_set_int)
  /\ IF r.temp_program_loops = s.temp_program_loops THEN TRUE
     ELSE LoopsExplored(r.temp_program_loops)
  /\ IF r.temp_program_name = s.temp_program_name THEN TRUE
     ELSE IF s.create_state = C_CREATE_SET_LOOPS THEN TRUE
     ELSE NameExplored(r.temp_program_name)
  /\ Len(r.saved_programs) <= Max2(MaxStore, Len(s.saved_programs))
  /\ Len(r.current_program.steps) > Len(s.current_program.steps)
       /\ s.main_state = MODE_CUSTOM_CREATE
       => Len(r.current_program.steps)
            <= (IF s.scope = "author" THEN MaxAuthored ELSE MaxSteps)

\* a run is being timed by the handler of the active mode
Driving(s) ==
  \/ s.main_state = MODE_SIMPLE /\ s.simple_state = S_RUNNING
  \/ s.main_state = MODE_CUSTOM_MENU /\ s.c_start_ts # None

\* remaining time of the run being driven, before the clock is sampled
DrivenRemaining(s) ==
  IF s.main_state = MODE_SIMPLE
  THEN s.s_run_duration_sec - (s.now - s.s_start_ts)
  ELSE s.c_run_duration_sec - (s.now - s.c_start_ts)

\* milliseconds between two samples of the clock: while a run is driven, the
\* next sample falls just before, at or just after the expiry; otherwise the
\* clock is not read by any handler and is left as it is
TimeSteps(s) ==
  IF ~Driving(s) THEN {0}
  ELSE LET rem == DrivenRemaining(s)
       IN IF rem <= 1 THEN {1} ELSE {rem - 1, rem, rem + 1}

\* the job-finished test of the indicator code (main.py:286)
DoneShown(s) == s.simple_state = S_DONE \/ s.run_state = C_RUN_DONE

\* NeoPixel handling (main.py:284-308): green blink, red blink, or the normal
\* colours restored once after the lid was open; else nothing is written
Indicate(s) ==
  IF DoneShown(s)
  THEN [s EXCEPT !.indicator = "done"]
  ELSE IF s.is_lid_open
  THEN [s EXCEPT !.indicator = "alarm", !.lid_was_open = TRUE]
  ELSE IF ~s.is_lid_open /\ s.lid_was_open
  THEN [s EXCEPT !.indicator = "normal", !.lid_was_open = FALSE]
  ELSE s

\* d = read_delta(); now = time.ticks_ms(); is_lid_open = ...  (main.py:262-264)
Sample(d, b, lid, dt) ==
  [Cur EXCEPT !.is_lid_open = lid, !.btn = b, !.now = now + dt]

\* some run is being timed or waits for its acknowledgement
Timed(r) ==
  \/ r.c_start_ts # None
  \/ r.run_state = C_RUN_DONE
  \/ r.simple_state = S_RUNNING
  \/ r.simple_state = S_DONE

\* the clock is kept relative to the run in progress and the run log is kept
\* for the run in progress or waiting for its acknowledgement
Settle(r) ==
  [r EXCEPT !.now = IF Timed(r) THEN r.now ELSE 0,
            !.run_log = IF r.c_start_ts # None \/ r.run_state = C_RUN_DONE
                        THEN r.run_log ELSE <<>>]

\* the tick from s to r leaves the wizard, or the value screens of a session
\* that adjusts values: the session is closed
Close(s, r) ==
  IF \/ s.scope \in {"create", "author", "store"} /\ s.main_state = MODE_CUSTOM_CREATE
          /\ r.main_state # MODE_CUSTOM_CREATE
     \/ s.scope = "adjust" /\ ~OnValueScreen(r)
  THEN [r EXCEPT !.scope = "closed"] ELSE r

\* the handler of the tick that starts in s ends with the button released: the
\* navigation, the Load block and the wizard time the press until the release
\* or wait for the release after a long press (main.py:496-511, 564-578,
\* 595-611)
WaitsForRelease(s) ==
  \/ s.main_state = MODE_CUSTOM_CREATE
  \/ s.main_state = MODE_CUSTOM_MENU /\ CustomBranch(s) \in {"nav", "none"}

\* the button is down past the end of the tick: a press that lasts more than
\* 600 ms, read by a handler that returns after its 180 ms debounce or after
\* the cancel (main.py:320-321, 344-345, 360-361, 373-374, 382-383, 403-411,
\* 421-422, 445-453, 482-483)
StillDown(s, r) == r.btn = "hold" /\ ~WaitsForRelease(s)

\* the tick from s to r has changed the mode or a sub-state
Moved(s, r) ==
  \/ r.main_state # s.main_state
  \/ r.simple_state # s.simple_state
  \/ r.create_state # s.create_state
  \/ r.load_state # s.load_state
  \/ r.run_state # s.run_state
  \/ (r.c_start_ts = None) # (s.c_start_ts = None)

\* the press that is down at the end of the tick has triggered a transition,
\* in this tick (not the lid interlock's, which does not read the button) or
\* in an earlier one
Track(s, r) ==
  [r EXCEPT !.press_spent =
     /\ StillDown(s, r)
     /\ \/ s.press_spent
        \/ Moved(s, r) /\ ~(r.is_lid_open /\ LidStops(s))]

Commit(r) ==
  /\ running
  /\ \E q \in {Close(Cur, Settle(Track(Cur, r)))} : WithinBounds(Cur, q) /\ Becomes(q)

\* the interlock never taking the tick: the handlers run with the lid open
InterlockAfterHandlers(lid) == FALSE

\* the lid interlock fires in this tick
Interlock(lid) == lid /\ LidStops(Cur)

\* ------------------------------------------------------------------------
\* Initial state (main.py:164-221, 241)
\* ------------------------------------------------------------------------
ProgA ==
  [name |-> FmtName(1), loops |-> 2,
   steps |-> << [u |-> 0, v |-> 10, i |-> 30], [u |-> 2, v |-> 500, i |-> 90] >>]

ProgB ==
  [name |-> FmtName(3), loops |-> 3,
   steps |-> << [u |-> 1, v |-> 1, i |-> 100], [u |-> 0, v |-> 1, i |-> 0],
                [u |-> 2, v |-> 100, i |-> 50] >>]

\* the stores a session starts with: [] (no readable file), or the file's list
InitStores(sc) ==
  IF sc = "simple" THEN { <<>> }
  ELSE IF sc = "run" THEN { <<>>, <<ProgA>>, <<ProgA, ProgB>> }
  ELSE { <<>>, <<ProgA>>, <<ProgA, ProgB>> }

\* what PROGRAMS_FILE holds at boot: no readable file where nothing was saved
InitFiles(sc) ==
  {IF store = << >> THEN Unreadable ELSE FileOf(store) : store \in InitStores(sc)}

Init ==
  /\ scope \in Scopes
  /\ main_state = MODE_MAIN_MENU
  /\ main_menu_idx = 0
  /\ simple_state = S_IDLE
  /\ custom_menu_idx = 0
  /\ create_state = C_CREATE_START
  /\ run_state = C_RUN_START
  /\ load_state = C_LOAD_SELECT
  /\ load_program_idx = 0
  /\ s_current_time_unit_idx = 0
  /\ s_set_value = UnitDef(0)
  /\ s_set_int = 50
  /\ s_run_duration_sec = 0
  /\ s_start_ts = None
  /\ programs_file \in InitFiles(scope)
  /\ saved_programs = load_programs_from_file(programs_file)
  /\ running = TRUE
  /\ current_program = EmptyProgram
  /\ temp_step = EmptyStep
  /\ temp_program_name = FmtName(1)
  /\ temp_program_loops = 1
  /\ c_run_duration_sec = 0
  /\ c_start_ts = None
  /\ c_run_current_step = 0
  /\ c_run_current_loop = 1
  /\ temp_add_another = TRUE
  /\ uv = 0
  /\ now = 0
  /\ is_lid_open = FALSE
  /\ lid_was_open \in BOOLEAN
  /\ indicator = (IF lid_was_open THEN "alarm" ELSE "normal")
  /\ press_spent = FALSE
  /\ btn = "up"
  /\ cur_ref = {}
  /\ temp_cur = 0
  /\ temp_store = {}
  /\ run_log = <<>>

\* ------------------------------------------------------------------------
\* Actions: one iteration of the super loop, by the branch it takes
\* ------------------------------------------------------------------------
\* lid open while a run is on: emergency stop, rest of the tick skipped
LidInterlockTick ==
  /\ LidStops(Cur)
  /\ \E d \in Deltas, b \in Buttons, dt \in TimeSteps(Cur) :
       Commit(EmergencyStop(Sample(d, b, TRUE, dt)))

MainMenuTick ==
  /\ main_state = MODE_MAIN_MENU
  /\ \E d \in Deltas, b \in Buttons, lid \in BOOLEAN, dt \in TimeSteps(Cur) :
       ~Interlock(lid) /\ (\E s0 \in {Indicate(Sample(d, b, lid, dt))} : Commit(MainMenuStep(s0, d)))

SimpleIdleTick ==
  /\ main_state = MODE_SIMPLE /\ simple_state = S_IDLE
  /\ \E d \in Deltas, b \in Buttons, lid \in BOOLEAN, dt \in TimeSteps(Cur) :
       ~Interlock(lid) /\ (\E s0 \in {Indicate(Sample(d, b, lid, dt))} : Commit(SimpleIdleStep(s0, d)))

SimpleSetTimeUnitTick ==
  /\ main_state = MODE_SIMPLE /\ simple_state = S_SET_TIME_UNIT
  /\ \E d \in Deltas, b \in Buttons, lid \in BOOLEAN, dt \in TimeSteps(Cur) :
       ~Interlock(lid) /\ (\E s0 \in {Indicate(Sample(d, b, lid, dt))} : Commit(SimpleSetTimeUnitStep(s0, d)))

SimpleSetTimeTick ==
  /\ main_state = MODE_SIMPLE /\ simple_state = S_SET_TIME
  /\ \E d \in Deltas, b \in Buttons, lid \in BOOLEAN, dt \in TimeSteps(Cur) :
       ~Interlock(lid) /\ (\E s0 \in {Indicate(Sample(d, b, lid, dt))} : Commit(SimpleSetTimeStep(s0, d)))

SimpleSetIntensTick ==
  /\ main_state = MODE_SIMPLE /\ simple_state = S_SET_INTENS
  /\ \E d \in Deltas, b \in Buttons, lid \in BOOLEAN, dt \in TimeSteps(Cur) :
       ~Interlock(lid) /\ (\E s0 \in {Indicate(Sample(d, b, lid, dt))} : Commit(SimpleSetIntensStep(s0, d)))

SimpleRunningTick ==
  /\ main_state = MODE_SIMPLE /\ simple_state = S_RUNNING
  /\ \E d \in Deltas, b \in Buttons, lid \in BOOLEAN, dt \in TimeSteps(Cur) :
       ~Interlock(lid) /\ (\E s0 \in {Indicate(Sample(d, b, lid, dt))} : Commit(SimpleRunningStep(s0, d)))

SimpleDoneTick ==
  /\ main_state = MODE_SIMPLE /\ simple_state = S_DONE
  /\ \E d \in Deltas, b \in Buttons, lid \in BOOLEAN, dt \in TimeSteps(Cur) :
       ~Interlock(lid) /\ (\E s0 \in {Indicate(Sample(d, b, lid, dt))} : Commit(SimpleDoneStep(s0, d)))

CustomMenuTick ==
  /\ main_state = MODE_CUSTOM_MENU
  /\ \E d \in Deltas, b \in Buttons, lid \in BOOLEAN, dt \in TimeSteps(Cur) :
       ~Interlock(lid) /\ (\E s0 \in {Indicate(Sample(d, b, lid, dt))} : Commit(CustomMenuStep(s0, d)))

\* the file is written only by the confirm of C_CREATE_SAVE_PROG
WriteOutcomes ==
  IF create_state = C_CREATE_SAVE_PROG THEN SaveOutcomes ELSE {"saved"}

CustomCreateTick ==
  /\ main_state = MODE_CUSTOM_CREATE
  /\ \E d \in Deltas, b \in Buttons, lid \in BOOLEAN, dt \in TimeSteps(Cur),
        io \in WriteOutcomes :
       ~Interlock(lid)
       /\ (\E s0 \in {Indicate(Sample(d, b, lid, dt))} : Commit(CreateStep(s0, d, io)))

Next ==
  \/ LidInterlockTick
  \/ MainMenuTick
  \/ SimpleIdleTick
  \/ SimpleSetTimeUnitTick
  \/ SimpleSetTimeTick
  \/ SimpleSetIntensTick
  \/ SimpleRunningTick
  \/ SimpleDoneTick
  \/ CustomMenuTick
  \/ CustomCreateTick

Spec == Init /\ [][Next]_vars

\* ------------------------------------------------------------------------
\* One Simple run, from the Set Time screen to the end of the run
\* ------------------------------------------------------------------------
\* set values and intensities the run is started with: the defaults and those
\* of the worked scenarios
RunValues(u) == {UnitDef(u)} \cup (IF u = 0 THEN ScenarioValues ELSE {})
RunIntens == {50} \cup ScenarioIntens

\* the operator stands in Simple/Set Time with a unit selected and a value and an
\* intensity dialled in during the session (main.py:354-381)
SimpleRunInit ==
  /\ scope = "simple"
  /\ main_state = MODE_SIMPLE
  /\ main_menu_idx = 0
  /\ simple_state = S_SET_TIME
  /\ custom_menu_idx = 0
  /\ create_state = C_CREATE_START
  /\ run_state = C_RUN_START
  /\ load_state = C_LOAD_SELECT
  /\ load_program_idx = 0
  /\ s_current_time_unit_idx \in 0..(NumUnits - 1)
  /\ s_set_value \in RunValues(s_current_time_unit_idx)
  /\ s_set_int \in RunIntens
  /\ s_run_duration_sec = 0
  /\ s_start_ts = None
  /\ programs_file = Unreadable
  /\ saved_programs = load_programs_from_file(programs_file)
  /\ running = TRUE
  /\ current_program = EmptyProgram
  /\ temp_step = EmptyStep
  /\ temp_program_name = FmtName(1)
  /\ temp_program_loops = 1
  /\ c_run_duration_sec = 0
  /\ c_start_ts = None
  /\ c_run_current_step = 0
  /\ c_run_current_loop = 1
  /\ temp_add_another = TRUE
  /\ uv = 0
  /\ now = 0
  /\ is_lid_open = FALSE
  /\ lid_was_open = FALSE
  /\ indicator = "normal"
  /\ press_spent = FALSE
  /\ btn = "up"
  /\ cur_ref = {}
  /\ temp_cur = 0
  /\ temp_store = {}
  /\ run_log = <<>>

SimpleRunNext ==
  \/ LidInterlockTick
  \/ SimpleSetTimeTick
  \/ SimpleSetIntensTick
  \/ SimpleRunningTick
  \/ SimpleDoneTick

\* the super loop keeps iterating: while the run lasts, its handler keeps running
SpecSimpleRun ==
  SimpleRunInit /\ [][SimpleRunNext]_vars /\ WF_vars(SimpleRunningTick)

\* ------------------------------------------------------------------------
\* Adjusting values: the screens on which a rotation changes a value
\* ------------------------------------------------------------------------
\* the state at boot (main.py:164-221) with the operator on screen `screen`:
\* in Simple mode when wizard is FALSE, in the Create wizard otherwise
OnScreenIn(sc, wizard, screen, u, v, i, l, n, file) ==
  LET step == [u |-> u, v |-> v, i |-> i]
      authored == screen \in {C_CREATE_SET_LOOPS, C_CREATE_SET_NAME}
  IN /\ scope = sc
     /\ main_state = IF wizard THEN MODE_CUSTOM_CREATE ELSE MODE_SIMPLE
     /\ main_menu_idx = IF wizard THEN 1 ELSE 0
     /\ simple_state = IF wizard THEN S_IDLE ELSE screen
     /\ custom_menu_idx = IF wizard THEN C_MENU_CREATE ELSE 0
     /\ create_state = IF wizard THEN screen ELSE C_CREATE_START
     /\ run_state = C_RUN_START
     /\ load_state = IF wizard THEN LOAD_NONE ELSE C_LOAD_SELECT
     /\ load_program_idx = 0
     /\ s_current_time_unit_idx = u
     /\ s_set_value = v
     /\ s_set_int = i
     /\ s_run_duration_sec = 0
     /\ s_start_ts = None
     /\ programs_file = file
     /\ saved_programs = load_programs_from_file(programs_file)
     /\ running = TRUE
     /\ current_program =
          IF ~wizard THEN EmptyProgram
          ELSE [name |-> NAME_NEW,
                loops |-> IF screen = C_CREATE_SET_NAME THEN l ELSE 1,
                steps |-> IF authored THEN <<step>> ELSE <<>>]
     /\ temp_step =
          IF ~wizard THEN EmptyStep
          ELSE IF authored THEN step
          ELSE IF screen = C_CREATE_SET_INTENS THEN [u |-> u, v |-> v, i |-> None]
          ELSE [u |-> u, v |-> UnitDef(u), i |-> None]
     /\ temp_program_name = FmtName(n)
     /\ temp_program_loops = l
     /\ c_run_duration_sec = 0
     /\ c_start_ts = None
     /\ c_run_current_step = 0
     /\ c_run_current_loop = 1
     /\ temp_add_another = IF wizard /\ authored THEN FALSE ELSE TRUE
     /\ uv = 0
     /\ now = 0
     /\ is_lid_open = FALSE
     /\ lid_was_open = FALSE
     /\ indicator = "normal"
     /\ press_spent = FALSE
     /\ btn = "up"
     /\ cur_ref = {}
     /\ temp_cur = IF wizard /\ authored THEN 1 ELSE 0
     /\ temp_store = {}
     /\ run_log = <<>>

\* the same in a session that adjusts values
OnScreen(wizard, screen, u, v, i, l, n, file) ==
  OnScreenIn("adjust", wizard, screen, u, v, i, l, n, file)

\* values the operator can have dialled in: the default, the minimum and the
\* maximum, and the scenario values
DialledValues(u) ==
  {UnitDef(u), UnitMin(u), UnitMax(u)} \cup (IF u = 0 THEN ScenarioValues ELSE {})
DialledIntens == {50, INT_MIN, INT_MAX} \cup ScenarioIntens
DialledLoops == {LOOPS_MIN, LOOPS_MAX}
DialledNames == {NAME_MIN, NAME_MAX}

\* the operator stands on one of the value screens with a value dialled in:
\* Set Time or Set Intensity of Simple mode or of the wizard, Set Loops, Set Name
AdjustInit ==
  \/ \E w \in BOOLEAN, u \in 0..(NumUnits - 1) : \E v \in DialledValues(u) :
       OnScreen(w, IF w THEN C_CREATE_SET_TIME ELSE S_SET_TIME, u, v, 50, 1, 1, Unreadable)
  \/ \E w \in BOOLEAN, i \in DialledIntens :
       OnScreen(w, IF w THEN C_CREATE_SET_INTENS ELSE S_SET_INTENS, 0, UnitDef(0), i, 1, 1, Unreadable)
  \/ \E l \in DialledLoops :
       OnScreen(TRUE, C_CREATE_SET_LOOPS, 0, UnitDef(0), 50, l, 1, Unreadable)
  \/ \E l \in DialledLoops, n \in DialledNames :
       OnScreen(TRUE, C_CREATE_SET_NAME, 0, UnitDef(0), 50, l, n, Unreadable)

AdjustNext ==
  \/ SimpleSetTimeTick
  \/ SimpleSetIntensTick
  \/ CustomCreateTick

SpecAdjust == AdjustInit /\ [][AdjustNext]_vars

\* a program as the wizard saves it under the default name number n
StoredProgram(n) ==
  [name |-> FmtName(n), loops |-> 1,
   steps |-> << [u |-> 0, v |-> UnitDef(0), i |-> 50] >>]

\* the store after k saves under the default names, and the same store with
\* the program of number gap missing (gap = 0: none missing)
StoreUpTo(k, gap) ==
  IF gap = 0 THEN [j \in 1..k |-> StoredProgram(j)]
  ELSE [j \in 1..(k - 1) |-> StoredProgram(IF j < gap THEN j ELSE j + 1)]

\* gaps are explored in the stores of up to MaxGapped programs
MaxGapped == 4

NameStores ==
  {StoreUpTo(k, 0) : k \in 1..NAME_MAX}
    \cup {StoreUpTo(k, gap) : k \in 2..MaxGapped, gap \in 1..(MaxGapped - 1)}

\* the operator stands on Set Loops of the wizard, with some number of programs
\* stored by earlier sessions
NamesInit ==
  \E file \in {Unreadable} \cup {FileOf(store) : store \in NameStores} :
    OnScreen(TRUE, C_CREATE_SET_LOOPS, 0, UnitDef(0), 50, 1, 1, file)

NamesNext == CustomCreateTick

SpecNames == NamesInit /\ [][NamesNext]_vars

\* ------------------------------------------------------------------------
\* Authoring a program: the wizard from its first screen
\* ------------------------------------------------------------------------
\* the state at boot (main.py:164-221) after the operator has confirmed Create
\* in the Custom menu (main.py:531-537), nothing stored
AuthorInit ==
  /\ scope = "author"
  /\ main_state = MODE_CUSTOM_CREATE
  /\ main_menu_idx = 1
  /\ simple_state = S_IDLE
  /\ custom_menu_idx = C_MENU_CREATE
  /\ create_state = C_CREATE_START
  /\ run_state = C_RUN_START
  /\ load_state = LOAD_NONE
  /\ load_program_idx = 0
  /\ s_current_time_unit_idx = 0
  /\ s_set_value = UnitDef(0)
  /\ s_set_int = 50
  /\ s_run_duration_sec = 0
  /\ s_start_ts = None
  /\ programs_file = Unreadable
  /\ saved_programs = load_programs_from_file(programs_file)
  /\ running = TRUE
  /\ current_program = NewProgram
  /\ temp_step = EmptyStep
  /\ temp_program_name = FmtName(1)
  /\ temp_program_loops = 1
  /\ c_run_duration_sec = 0
  /\ c_start_ts = None
  /\ c_run_current_step = 0
  /\ c_run_current_loop = 1
  /\ temp_add_another = TRUE
  /\ uv = 0
  /\ now = 0
  /\ is_lid_open = FALSE
  /\ lid_was_open = FALSE
  /\ indicator = "normal"
  /\ press_spent = FALSE
  /\ btn = "up"
  /\ cur_ref = {}
  /\ temp_cur = 0
  /\ temp_store = {}
  /\ run_log = <<>>

AuthorNext == CustomCreateTick

SpecAuthor == AuthorInit /\ [][AuthorNext]_vars

\* ------------------------------------------------------------------------
\* Storing a program: the wizard from a value screen to the save
\* ------------------------------------------------------------------------
\* the files PROGRAMS_FILE can hold when a session that stores a program starts
StoreFiles == {Unreadable, FileOf(<<ProgA>>), FileOf(<<ProgA, ProgB>>)}

\* the operator stands on a value screen of the wizard with a value dialled
\* in, over a store of earlier sessions; the session ("store") is followed up
\* to the tick that leaves the wizard
StoreInit ==
  \E file \in StoreFiles :
    \/ \E u \in 0..(NumUnits - 1) : \E v \in DialledValues(u) :
         OnScreenIn("store", TRUE, C_CREATE_SET_TIME, u, v, 50, 1, 1, file)
    \/ \E i \in DialledIntens :
         OnScreenIn("store", TRUE, C_CREATE_SET_INTENS, 0, UnitDef(0), i, 1, 1, file)
    \/ \E l \in DialledLoops :
         OnScreenIn("store", TRUE, C_CREATE_SET_LOOPS, 0, UnitDef(0), 50, l, 1, file)
    \/ \E l \in DialledLoops, n \in DialledNames :
         OnScreenIn("store", TRUE, C_CREATE_SET_NAME, 0, UnitDef(0), 50, l, n, file)

StoreNext == CustomCreateTick

SpecStore == StoreInit /\ [][StoreNext]_vars

\* ------------------------------------------------------------------------
\* Properties
\* ------------------------------------------------------------------------
\* A tick is a step of the model; the primed is_lid_open and btn are the
\* samples of that tick, the unprimed variables the state the tick started in.

\* the lid is sampled open while a Simple run or a custom run cursor is active
LidOpensOnRun ==
  /\ is_lid_open'
  /\ \/ main_state = MODE_SIMPLE /\ simple_state = S_RUNNING
     \/ c_start_ts # None

\* the safe baseline at the end of the tick
SafeBaseline ==
  uv' = 0 /\ main_state' = MODE_MAIN_MENU /\ simple_state' = S_IDLE /\ c_start_ts' = None

\* C1: in every tick in which the lid is sampled open while Simple mode is in
\* Running or a custom run cursor exists, in whatever top-level mode, the tick
\* ends with UV off, mode MainMenu, Simple sub-state Idle and no run cursor.
C1_LidInterlockAlwaysWins == [][LidOpensOnRun => SafeBaseline]_vars

\* C1: what the interlock does where its condition reaches: the same, for a
\* run cursor that exists while the mode is the Custom menu.
C1_LidInterlockInRunModes ==
  [][is_lid_open' /\ LidStops(Cur) => SafeBaseline]_vars

\* C1: the UV output is on with the lid sampled open at the end of a tick.
C1_UvOnWithLidOpen == is_lid_open /\ uv # 0 /\ c_start_ts # None

\* the long-press cancel of a custom run fires in this tick
CustomCancelFires ==
  main_state = MODE_CUSTOM_MENU /\ c_start_ts # None /\ ~is_lid_open' /\ btn' = "hold"

\* C3: whenever the long-press cancel of a custom run fires, the tick ends with
\* UV off, the run cursor destroyed and mode MainMenu, for every value of the
\* step's remaining time at that tick.
C3_CustomCancelStopsRun ==
  [][CustomCancelFires => uv' = 0 /\ c_start_ts' = None /\ main_state' = MODE_MAIN_MENU]_vars

\* C3: a cancelled run is left with its cursor set and the UV output on, in the
\* main menu.
C3_CancelledRunStillOn == main_state = MODE_MAIN_MENU /\ c_start_ts # None /\ uv # 0

\* the long-press cancel of a Simple run fires in this tick
SimpleCancelFires ==
  main_state = MODE_SIMPLE /\ simple_state = S_RUNNING /\ ~is_lid_open' /\ btn' = "hold"

\* C4: whenever the long-press cancel fires in Simple/Running, the tick ends
\* with UV off, Simple sub-state Idle and mode MainMenu, for every value of the
\* remaining time at that tick.
C4_SimpleCancelToIdle ==
  [][SimpleCancelFires => uv' = 0 /\ simple_state' = S_IDLE /\ main_state' = MODE_MAIN_MENU]_vars

\* C4: a cancelled Simple run is left in the main menu with sub-state Done.
C4_CancelledRunDone == main_state = MODE_MAIN_MENU /\ simple_state = S_DONE /\ btn = "hold"

\* a short press with the lid sampled open, where a press could start a run or
\* enter a mode: MainMenu, Simple/Idle, Simple/SetIntensity, Custom-menu item Run
ShortPressLidOpen ==
  /\ is_lid_open' /\ btn' = "tap"
  /\ \/ main_state = MODE_MAIN_MENU
     \/ main_state = MODE_SIMPLE /\ simple_state \in {S_IDLE, S_SET_INTENS}
     \/ /\ main_state = MODE_CUSTOM_MENU /\ CustomBranch(Cur) = "nav"
        /\ custom_menu_idx' = C_MENU_RUN

\* C2: in a tick whose lid sample is open, a short press in Simple/SetIntensity
\* or on the Custom-menu item Run (and in MainMenu and Simple/Idle) never turns
\* the UV output on, never creates a run cursor and never changes the mode or
\* the Simple sub-state.
C2_NoStartWithLidOpen ==
  [][ShortPressLidOpen =>
       /\ uv' = uv
       /\ c_start_ts' = c_start_ts /\ s_start_ts' = s_start_ts
       /\ main_state' = main_state /\ simple_state' = simple_state]_vars

\* C2: a short press on the item Run with a loaded program and the lid open
\* has left the run unstarted.
C2_RunRefusedLidOpen ==
  /\ is_lid_open /\ btn = "tap"
  /\ main_state = MODE_CUSTOM_MENU /\ custom_menu_idx = C_MENU_RUN
  /\ CustomBranch(Cur) = "nav"
  /\ Len(current_program.steps) > 0
  /\ uv = 0

\* the n-th step-execution of a full walk of program p: loop 1 steps 0..S-1,
\* loop 2 steps 0..S-1, ..., loop L steps 0..S-1
WalkLoop(p, n) == ((n - 1) \div Len(p.steps)) + 1
WalkStep(p, n) == (n - 1) % Len(p.steps)
WalkLen(p) == p.loops * Len(p.steps)

\* the run log is the first Len(run_log) step-executions of the walk
LogFollowsWalk ==
  /\ Len(run_log) <= WalkLen(current_program)
  /\ \A n \in 1..Len(run_log) :
       /\ run_log[n].loop = WalkLoop(current_program, n)
       /\ run_log[n].step = WalkStep(current_program, n)

\* while the cursor exists it stands on the last step-execution started; the
\* finished state is reached with the whole walk done, UV off and no cursor
RunWalked ==
  /\ c_start_ts # None =>
       /\ LogFollowsWalk /\ Len(run_log) >= 1
       /\ run_log[Len(run_log)].loop = c_run_current_loop
       /\ run_log[Len(run_log)].step = c_run_current_step
  /\ run_state = C_RUN_DONE =>
       /\ LogFollowsWalk /\ Len(run_log) = WalkLen(current_program)
       /\ uv = 0 /\ c_start_ts = None

\* a tick that drives a custom run, without cancellation and with the lid closed
DriveTick ==
  main_state = MODE_CUSTOM_MENU /\ c_start_ts # None /\ ~is_lid_open' /\ btn' # "hold"

\* the tick's clock sample finds the running step expired
StepExpired == Remaining(c_run_duration_sec, c_start_ts, now') <= 0

\* one step-execution more per expiry, none without, the finish after the last
OneAdvancePerExpiry ==
  DriveTick =>
    IF ~StepExpired
    THEN run_log' = run_log /\ c_start_ts' = c_start_ts /\ run_state' # C_RUN_DONE
    ELSE IF Len(run_log) = WalkLen(current_program)
    THEN run_log' = run_log /\ run_state' = C_RUN_DONE /\ uv' = 0 /\ c_start_ts' = None
    ELSE Len(run_log') = Len(run_log) + 1 /\ run_state' # C_RUN_DONE /\ c_start_ts' # None

\* C5: a custom run of a program with L loops and S >= 1 steps, not cancelled
\* and not interrupted by the lid, executes exactly L*S step-executions in the
\* order (loop 1, steps 0..S-1), ..., (loop L, steps 0..S-1), advances exactly
\* one step-execution per expiry, and reaches the finished state (UV off, no
\* cursor, RunDone) only after the expiry of the last one.
C5_RunWalksLoopsTimesSteps == [][OneAdvancePerExpiry /\ RunWalked']_vars

\* C5: a run of a program with 2 loops of 2 steps has finished, uncancelled,
\* after 4 step-executions.
C5_FullWalkFinished ==
  /\ run_state = C_RUN_DONE /\ main_state = MODE_CUSTOM_MENU
  /\ current_program.loops = 2 /\ Len(current_program.steps) = 2
  /\ Len(run_log) = 4

\* to_seconds(unit, value) as the specification states it, in milliseconds
ClaimedMillis(unit, value) ==
  CASE unit = 0 -> value * 1000
    [] unit = 1 -> value * 60 * 1000
    [] unit = 2 -> value

\* the step-execution in progress runs at its step's intensity and duration
CursorMatchesStep ==
  c_start_ts # None =>
    LET step == current_program.steps[c_run_current_step + 1]
    IN /\ uv = step.i
       /\ c_run_duration_sec = ClaimedMillis(step.u, step.v)

\* every step-execution was started with its step's intensity and duration
LogMatchesSteps ==
  c_start_ts # None \/ run_state = C_RUN_DONE =>
    \A n \in 1..Len(run_log) :
      LET step == current_program.steps[run_log[n].step + 1]
      IN /\ run_log[n].duty = step.i
         /\ run_log[n].dur = ClaimedMillis(step.u, step.v)

\* the worked scenario: steps (unit 0, 10, 30%), (unit 2, 500, 90%), 2 loops
ScenarioProgramFinished ==
  /\ run_state = C_RUN_DONE
  /\ current_program.loops = 2
  /\ current_program.steps = << [u |-> 0, v |-> 10, i |-> 30], [u |-> 2, v |-> 500, i |-> 90] >>

\* C6: in every step-execution of a custom run the UV duty is the step's
\* intensity and the duration is to_seconds(unit, value) of the step; the
\* scenario program runs 10 s, 0.5 s, 10 s, 0.5 s at 30, 90, 30, 90 percent and
\* finishes after the 4th expiry.
C6_StepDutyAndDuration ==
  /\ CursorMatchesStep
  /\ LogMatchesSteps
  /\ ScenarioProgramFinished =>
       /\ [n \in 1..Len(run_log) |-> run_log[n].dur] = <<10000, 500, 10000, 500>>
       /\ [n \in 1..Len(run_log) |-> run_log[n].duty] = <<30, 90, 30, 90>>

\* C6: the scenario program has run to its end, the last step-execution at
\* 90 percent for half a second.
C6_ScenarioRan ==
  /\ ScenarioProgramFinished /\ main_state = MODE_CUSTOM_MENU
  /\ Len(run_log) = 4 /\ run_log[4].dur = 500 /\ run_log[4].duty = 90

\* the press that confirms Simple/SetIntensity with the lid closed
SimpleConfirmTick ==
  /\ main_state = MODE_SIMPLE /\ simple_state = S_SET_INTENS
  /\ ~is_lid_open' /\ btn' # "up"

\* a tick that drives a Simple run, without cancellation and with the lid closed
SimpleDriveTick ==
  /\ main_state = MODE_SIMPLE /\ simple_state = S_RUNNING
  /\ ~is_lid_open' /\ btn' # "hold"

\* elapsed time of the Simple run at the tick's clock sample, milliseconds
SimpleElapsed == now' - s_start_ts

\* the scenario with duration D (ms): the confirm starts Running with duration D
\* and duty 80, and the run reaches Done, UV off, at the first tick with D
\* elapsed and not earlier
SimpleScenario(value, D) ==
  /\ SimpleConfirmTick /\ s_current_time_unit_idx = 0 /\ s_set_value = value
       /\ s_set_int' = 80
     => simple_state' = S_RUNNING /\ s_run_duration_sec' = D /\ uv' = 80
  /\ SimpleDriveTick /\ s_current_time_unit_idx = 0 /\ s_set_value = value
       /\ s_set_int = 80
     => IF SimpleElapsed >= D
        THEN simple_state' = S_DONE /\ uv' = 0
        ELSE simple_state' = S_RUNNING /\ uv' = 80

\* C7 as stated: unit min:sec, set-value 5, intensity 80: the confirm starts
\* Running with a run duration of 300 seconds and duty 0.8, and the run reaches
\* Done (UV off) when 300 s have elapsed, not earlier.
C7_SetValue5Runs300s == [][SimpleScenario(5, 300000)]_vars

\* C7: unit min:sec holds its value in seconds: with set-value 300 (shown as
\* 05:00) and intensity 80 the confirm starts Running with a run duration of
\* 300 seconds and duty 0.8, and the run reaches Done (UV off) when 300 s have
\* elapsed, not earlier.
C7_SetValue300Runs300s == [][SimpleScenario(300, 300000)]_vars

\* C7: the 300-second run at 80 percent has reached Done.
C7_Run300sDone ==
  /\ main_state = MODE_SIMPLE /\ simple_state = S_DONE /\ uv = 0
  /\ s_current_time_unit_idx = 0 /\ s_set_value = 300 /\ s_set_int = 80
  /\ s_run_duration_sec = 300000

\* in Running the UV output is on at the set intensity
RunningAtIntensity ==
  main_state = MODE_SIMPLE /\ simple_state = S_RUNNING => uv = s_set_int

\* a driven run stays Running at its intensity while the elapsed time is below
\* the duration, and turns UV off and enters Done at the first tick it is not
RunsUntilExpiry ==
  SimpleDriveTick =>
    IF SimpleElapsed < s_run_duration_sec
    THEN simple_state' = S_RUNNING /\ uv' = s_set_int /\ main_state' = MODE_SIMPLE
    ELSE simple_state' = S_DONE /\ uv' = 0 /\ s_start_ts' = None

\* C8: a Simple run that is neither cancelled nor interrupted by the lid stays
\* in Running with UV on at its intensity on every tick whose elapsed time is
\* below the run duration, and at the first tick with remaining <= 0 turns UV
\* off and enters Done; with the loop iterating, every run comes to its end:
\* Done, or the main menu for a cancelled or interrupted run.
C8_SimpleRunCompletes ==
  /\ [][RunsUntilExpiry /\ RunningAtIntensity']_vars
  /\ (main_state = MODE_SIMPLE /\ simple_state = S_RUNNING)
       ~> (simple_state = S_DONE \/ main_state = MODE_MAIN_MENU)

\* C8: a one-second run at 50 percent was driven to the tick at which its
\* duration had elapsed and is Done.
C8_RunExpiredAtDuration ==
  /\ main_state = MODE_SIMPLE /\ simple_state = S_DONE /\ uv = 0
  /\ s_current_time_unit_idx = 2 /\ s_run_duration_sec = 1000 /\ now = 1000
  /\ s_set_int = 50 /\ ~is_lid_open /\ btn = "up"

\* the short press that confirms the SavePrompt of the wizard
SaveConfirmTick ==
  main_state = MODE_CUSTOM_CREATE /\ create_state = C_CREATE_SAVE_PROG /\ btn' = "tap"

\* store positions whose program has the name of the current program
SameName == {k \in 1..Len(saved_programs) : saved_programs[k].name = current_program.name}

\* the program replaces the stored one of its name at the same position, or is
\* appended as the last entry when no stored program has its name
SavedByName ==
  IF SameName # {}
  THEN /\ Len(saved_programs') = Len(saved_programs)
       /\ \E k \in SameName :
            /\ saved_programs'[k] = current_program
            /\ \A j \in 1..Len(saved_programs) : j # k => saved_programs'[j] = saved_programs[j]
  ELSE /\ Len(saved_programs') = Len(saved_programs) + 1
       /\ saved_programs'[Len(saved_programs')] = current_program
       /\ \A j \in 1..Len(saved_programs) : saved_programs'[j] = saved_programs[j]

\* C9: confirming the SavePrompt when the current program's name equals the
\* name of a stored program replaces that entry at the same position (store
\* length and the other entries unchanged); when no stored program has that
\* name the program is appended as the last entry (length + 1, earlier entries
\* unchanged).
C9_SaveReplacesOrAppends == [][SaveConfirmTick => SavedByName]_vars

\* C9: a program authored in the wizard under the name P-03 has replaced the
\* stored program of that name at position 2, next to the untouched P-01.
C9_ReplacedInPlace ==
  /\ scope = "closed" /\ main_state = MODE_CUSTOM_MENU /\ btn = "tap"
  /\ Len(saved_programs) = 2
  /\ saved_programs[1] = ProgA
  /\ saved_programs[2].name = FmtName(3) /\ saved_programs[2] # ProgB
  /\ saved_programs[2] = current_program

\* the four adjustable values are within their limits
ValuesInLimits ==
  /\ s_set_value \in UnitMin(s_current_time_unit_idx)..UnitMax(s_current_time_unit_idx)
  /\ s_set_int \in INT_MIN..INT_MAX
  /\ temp_program_loops \in LOOPS_MIN..LOOPS_MAX
  /\ ParseNum(temp_program_name) \in NAME_MIN..NAME_MAX
  /\ temp_program_name = FmtName(ParseNum(temp_program_name))

\* v is w moved by no more than one encoder step of size step
OneStepApart(v, w, step) == v - w \in {0 - step, 0, step}

\* the tick runs a handler of a value screen without a press, so a rotation is
\* applied to the value shown and the screen stays
OnTimeScreen ==
  \/ main_state = MODE_SIMPLE /\ simple_state = S_SET_TIME
  \/ main_state = MODE_CUSTOM_CREATE /\ create_state = C_CREATE_SET_TIME
OnIntensScreen ==
  \/ main_state = MODE_SIMPLE /\ simple_state = S_SET_INTENS
  \/ main_state = MODE_CUSTOM_CREATE /\ create_state = C_CREATE_SET_INTENS
OnLoopsScreen == main_state = MODE_CUSTOM_CREATE /\ create_state = C_CREATE_SET_LOOPS
OnNameScreen == main_state = MODE_CUSTOM_CREATE /\ create_state = C_CREATE_SET_NAME

\* a rotation moves a value by one step towards a limit and leaves it at the
\* limit it has reached: no jump to the other end
NoWrap ==
  /\ OnTimeScreen /\ btn' = "up" =>
       OneStepApart(s_set_value', s_set_value, UnitStep(s_current_time_unit_idx))
  /\ OnIntensScreen /\ btn' = "up" => OneStepApart(s_set_int', s_set_int, INT_STEP)
  /\ OnLoopsScreen /\ btn' = "up" => OneStepApart(temp_program_loops', temp_program_loops, 1)
  /\ OnNameScreen /\ btn' = "up" =>
       OneStepApart(ParseNum(temp_program_name'), ParseNum(temp_program_name), 1)

\* C10: after any sequence of rotation deltas the SetTime value stays within
\* [min, max] of the selected time unit, the intensity within [0, 100], the
\* loop count within [1, 99] and the name suffix within [1, 99], in Simple mode
\* and in the Create wizard; the values saturate at the limits and never wrap.
C10_ValuesSaturate == [][NoWrap /\ ValuesInLimits']_vars

\* C10: on the Set Loops screen of a session that began with 99 loops dialled
\* in, the count was turned down one step and no further.
C10_LoopsTurnedBelowMax ==
  /\ OnLoopsScreen /\ temp_program_loops = LOOPS_MAX - 1 /\ btn = "up"
  /\ current_program.loops = 1 /\ Len(current_program.steps) = 1

\* C11: in every state in which a custom run cursor exists, the current program
\* has at least one step, the loop index is within 1..loop count and the step
\* index within 0..number of steps - 1: the cursor indexes an existing step.
C11_CursorIndexesStep ==
  c_start_ts # None =>
    /\ Len(current_program.steps) >= 1
    /\ 1 <= c_run_current_loop /\ c_run_current_loop <= current_program.loops
    /\ 0 <= c_run_current_step /\ c_run_current_step < Len(current_program.steps)

\* C11: the cursor stands on the last step of the last loop of a program of
\* three loops of three steps.
C11_CursorOnLastStep ==
  /\ c_start_ts # None /\ main_state = MODE_CUSTOM_MENU
  /\ current_program.loops = 3 /\ c_run_current_loop = 3
  /\ Len(current_program.steps) = 3 /\ c_run_current_step = 2

\* a MainMenu tick whose sample is a short press with the lid closed
MainMenuConfirmTick ==
  main_state = MODE_MAIN_MENU /\ btn' = "tap" /\ ~is_lid_open'

\* C12: a MainMenu short press with the lid closed and the selector on Custom
\* enters CustomMenu in plain menu navigation (no Load sub-flow, no run cursor,
\* no RunDone acknowledgement pending) with item 0 selected; with the selector
\* on Simple it enters Simple with sub-state Idle.
C12_MainMenuEntersPlainNavigation ==
  [][MainMenuConfirmTick =>
       /\ main_menu_idx' = 1 =>
            /\ main_state' = MODE_CUSTOM_MENU
            /\ custom_menu_idx' = 0
            /\ load_state' = LOAD_NONE
            /\ c_start_ts' = None
            /\ run_state' # C_RUN_DONE
       /\ main_menu_idx' = 0 =>
            main_state' = MODE_SIMPLE /\ simple_state' = S_IDLE]_vars

\* C12: the mode is entered as the source assigns it: CustomMenu with item 0,
\* or Simple with sub-state Idle.
C12_MainMenuEntersMode ==
  [][MainMenuConfirmTick =>
       /\ main_menu_idx' = 1 =>
            main_state' = MODE_CUSTOM_MENU /\ custom_menu_idx' = 0
       /\ main_menu_idx' = 0 =>
            main_state' = MODE_SIMPLE /\ simple_state' = S_IDLE]_vars

\* C12: the Custom menu with the Load sub-flow active although no program was
\* ever offered for loading: nothing is stored and nothing is loaded.
C12_CustomMenuInLoadSubflow ==
  /\ main_state = MODE_CUSTOM_MENU /\ custom_menu_idx = 0
  /\ load_state # LOAD_NONE
  /\ saved_programs = << >> /\ current_program = EmptyProgram

\* a Create-wizard tick whose sample is a long press
CreateCancelTick ==
  main_state = MODE_CUSTOM_CREATE /\ btn' = "hold"

\* C13: a long press in any Create-wizard state returns the mode to CustomMenu,
\* leaves the Program Store unchanged and discards the in-progress program: the
\* program under construction is no longer the current program, and what the
\* current-program slot holds afterwards has no step that Run could start.
C13_CancelDiscardsProgram ==
  [][CreateCancelTick =>
       /\ main_state' = MODE_CUSTOM_MENU
       /\ saved_programs' = saved_programs
       /\ current_program' # current_program
       /\ Len(current_program'.steps) = 0]_vars

\* C13: the cancel returns to CustomMenu with the wizard reset to its first
\* state and leaves the Program Store unchanged.
C13_CancelKeepsStore ==
  [][CreateCancelTick =>
       /\ main_state' = MODE_CUSTOM_MENU
       /\ create_state' = C_CREATE_START
       /\ saved_programs' = saved_programs]_vars

\* C13: back in the Custom menu after a cancel, the current program is the
\* unsaved program "New" with the step that was authored before the cancel.
C13_CancelledProgramHeld ==
  /\ main_state = MODE_CUSTOM_MENU /\ create_state = C_CREATE_START
  /\ current_program.name = NAME_NEW
  /\ Len(current_program.steps) = 1
  /\ \A k \in 1..Len(saved_programs) : saved_programs[k].name # NAME_NEW

\* a Custom-menu tick that starts in the Load sub-flow
LoadTick ==
  main_state = MODE_CUSTOM_MENU /\ load_state # LOAD_NONE

\* the selection after a tick's rotation: unchanged or one position further in
\* either direction, wrapping at both ends of 0..n-1
LoadIndexCycled(n) ==
  /\ load_program_idx' \in 0..(n - 1)
  /\ load_program_idx' \in {load_program_idx,
                            (load_program_idx + 1) % n,
                            (load_program_idx + n - 1) % n}

\* what the Load sub-flow does in one tick on a store of n >= 1 programs
LoadOutcome(n) ==
  /\ LoadIndexCycled(n)
  /\ btn' = "tap" =>
       /\ current_program' = saved_programs[load_program_idx' + 1]
       /\ load_state' = LOAD_NONE
  /\ btn' = "hold" =>
       /\ current_program' = current_program
       /\ load_state' = LOAD_NONE
  /\ btn' = "up" =>
       /\ current_program' = current_program
       /\ load_state' = load_state

\* C14: in every state of the Load sub-flow a short press sets the current
\* program to the store entry at the selected index and exits to navigation, a
\* long press exits to navigation with the current program unchanged, and the
\* rotation cycles the selection over 0..len(store)-1 with wraparound.
C14_LoadSubflow ==
  [][LoadTick =>
       /\ Len(saved_programs) >= 1
       /\ LoadOutcome(Len(saved_programs))]_vars

\* C14: the same on every Load sub-flow state whose store is not empty.
C14_LoadSubflowOnPrograms ==
  [][LoadTick /\ Len(saved_programs) >= 1 =>
       LoadOutcome(Len(saved_programs))]_vars

\* C14: the Load sub-flow is active on an empty store after a short press in
\* it (the lid is open, so the press was not the one that entered the menu):
\* there is no entry to select and the sub-flow is not left.
C14_LoadSubflowOnEmptyStore ==
  /\ main_state = MODE_CUSTOM_MENU /\ load_state = C_LOAD_SELECT
  /\ saved_programs = << >> /\ btn = "tap" /\ is_lid_open
  /\ current_program = EmptyProgram

\* a tick that takes Simple mode from Idle to SetTimeUnit
SimpleIdleToSetTimeUnit ==
  /\ main_state = MODE_SIMPLE /\ simple_state = S_IDLE
  /\ main_state' = MODE_SIMPLE /\ simple_state' = S_SET_TIME_UNIT

\* C15: every Idle -> SetTimeUnit transition of Simple mode leaves the
\* time-unit index at 0, whatever unit was selected before.
C15_IdleInitialisesUnit ==
  [][SimpleIdleToSetTimeUnit => s_current_time_unit_idx' = 0]_vars

\* C15: the transition is taken by a press with the lid closed and changes
\* neither the time-unit index nor the set-value.
C15_IdleKeepsUnit ==
  [][SimpleIdleToSetTimeUnit =>
       /\ btn' # "up" /\ ~is_lid_open'
       /\ s_current_time_unit_idx' = s_current_time_unit_idx
       /\ s_set_value' = s_set_value]_vars

\* C15: SetTimeUnit just entered from Idle (the press that entered it is the
\* tick's sample) with the unit of an earlier Simple cycle still selected.
C15_SetTimeUnitEnteredOnOldUnit ==
  /\ main_state = MODE_SIMPLE /\ simple_state = S_SET_TIME_UNIT
  /\ btn = "tap" /\ s_current_time_unit_idx # 0

\* the confirm of the Save prompt whose write of the file did not succeed
FailedSaveTick ==
  SaveConfirmTick /\ programs_file' # FileOf(saved_programs')

\* C16: persistence failures are not fatal. At boot an unreadable programs file
\* gives an empty store and the machine starts in MainMenu; a confirm at the
\* Save prompt whose write fails still ends in CustomMenu on item 0 with the
\* saved program in the in-memory store, every other stored program kept, and
\* the super loop still executing.
C16_PersistenceFailuresNonFatal ==
  /\ ~programs_file.readable =>
       saved_programs = << >> /\ main_state = MODE_MAIN_MENU /\ running
  /\ [][FailedSaveTick =>
          /\ main_state' = MODE_CUSTOM_MENU /\ custom_menu_idx' = 0
          /\ \E k \in 1..Len(saved_programs') : saved_programs'[k] = current_program'
          /\ \A k \in 1..Len(saved_programs) :
               \/ saved_programs'[k] = saved_programs[k]
               \/ saved_programs'[k] = current_program'
          /\ running']_vars

\* C16: back in the Custom menu after a confirmed save whose write failed: the
\* store holds the program, the file does not hold the store.
C16_SavedInMemoryOnly ==
  /\ main_state = MODE_CUSTOM_MENU /\ custom_menu_idx = 0 /\ btn = "tap"
  /\ running
  /\ Len(saved_programs) >= 1
  /\ programs_file # FileOf(saved_programs)
  /\ \E k \in 1..Len(saved_programs) : saved_programs[k] = current_program

\* presses still needed in the Custom menu to be back in MainMenu: one where a
\* run is driven (lid or long press), acknowledged or the menu is navigated
\* (long press), two in the Load sub-flow (long press to the navigation first)
CustomMenuDistance ==
  IF c_start_ts # None THEN 1
  ELSE IF run_state = C_RUN_DONE THEN 1
  ELSE IF load_state = LOAD_NONE THEN 1
  ELSE 2

\* operator inputs still needed to be back in MainMenu
HomeDistance ==
  IF main_state = MODE_MAIN_MENU THEN 0
  ELSE IF main_state = MODE_SIMPLE
  THEN IF simple_state = S_IDLE THEN 5
       ELSE IF simple_state = S_SET_TIME_UNIT THEN 4
       ELSE IF simple_state = S_SET_TIME THEN 3
       ELSE IF simple_state = S_SET_INTENS THEN 2
       ELSE 1
  ELSE IF main_state = MODE_CUSTOM_MENU THEN CustomMenuDistance
  ELSE 1 + CustomMenuDistance

\* some tick brings the machine nearer to MainMenu
HomewardTick == Next /\ HomeDistance' < HomeDistance

\* C17: no dead end. In every state whose mode is not MainMenu some sample of
\* rotation, button, lid and clock gives a tick that lowers the number of inputs
\* still needed to be in MainMenu; the number is 0 exactly in MainMenu, so a
\* finite sequence of inputs leads there from every state.
C17_NoDeadEnd ==
  /\ HomeDistance = 0 <=> main_state = MODE_MAIN_MENU
  /\ main_state # MODE_MAIN_MENU => ENABLED HomewardTick

\* C17: the Load sub-flow on an empty store, where a short press and a rotation
\* do nothing: two long presses away from MainMenu.
C17_FarthestFromHome ==
  /\ main_state = MODE_CUSTOM_MENU /\ load_state = C_LOAD_SELECT
  /\ saved_programs = << >> /\ HomeDistance = 2

\* the confirm of Set Loops, which enters Set Name
EnterSetName ==
  /\ main_state = MODE_CUSTOM_CREATE /\ create_state = C_CREATE_SET_LOOPS
  /\ create_state' = C_CREATE_SET_NAME

\* the name P-NN of a number, two digits
NameOfNumber(n) == <<"P", "-", DigitChars[(n \div 10) + 1], DigitChars[(n % 10) + 1]>>

\* the numbers 01..99 that no stored program is named after
UnusedNumbers ==
  {n \in NAME_MIN..NAME_MAX :
     \A k \in 1..Len(saved_programs) : saved_programs[k].name # NameOfNumber(n)}

\* C18: on entering Set Name the default name is P-NN, NN the lowest number in
\* 01..99 that no stored program is named after, for every store content.
C18_DefaultNameLowestUnused ==
  [][EnterSetName =>
       /\ UnusedNumbers # {}
       /\ \E n \in UnusedNumbers :
            /\ temp_program_name' = NameOfNumber(n)
            /\ \A m \in UnusedNumbers : n <= m]_vars

\* C18: the same for every store that leaves one of the names P-01..P-99 unused.
C18_DefaultNameWhereUnused ==
  [][EnterSetName /\ UnusedNumbers # {} =>
       \E n \in UnusedNumbers :
         /\ temp_program_name' = NameOfNumber(n)
         /\ \A m \in UnusedNumbers : n <= m]_vars

\* C18: Set Name entered with all of P-01..P-99 stored: the default name has
\* three digits.
C18_DefaultNameP100 ==
  /\ main_state = MODE_CUSTOM_CREATE /\ create_state = C_CREATE_SET_NAME
  /\ UnusedNumbers = {}
  /\ temp_program_name = <<"P", "-", "1", "0", "0">>

\* C19: the Program Store (name, loop count and steps of every stored program,
\* and their number and order) changes only in the tick in which the Save
\* prompt is confirmed: not by a Load, a wizard step, a cancel or a run, also
\* where the current program is the same object as a store entry.
C19_StoreChangesOnlyOnSave ==
  [][saved_programs' # saved_programs => SaveConfirmTick]_vars

\* C19: the current program is the object at the second store position (loaded
\* from there), a run of it has gone through all its step-executions and is
\* waiting for the acknowledgement; the store holds both programs as they were.
C19_RanStoredObject ==
  /\ main_state = MODE_CUSTOM_MENU /\ run_state = C_RUN_DONE /\ c_start_ts = None
  /\ cur_ref = {2} /\ current_program = ProgB
  /\ Len(run_log) = 9
  /\ saved_programs = <<ProgA, ProgB>>

\* a tick with the button down on a finished run that waits for its
\* acknowledgement
AcknowledgeTick ==
  /\ btn' # "up"
  /\ \/ main_state = MODE_SIMPLE /\ simple_state = S_DONE
     \/ main_state = MODE_CUSTOM_MENU /\ c_start_ts = None /\ run_state = C_RUN_DONE

\* the lid is sampled open in a tick that would drive a run (to its expiry, to
\* a cancel by the held button, or on) or take an acknowledgement
LidPreemptsTick ==
  is_lid_open' /\ (LidStops(Cur) \/ AcknowledgeTick)

\* no menu index, selection or wizard value is changed by the tick
SelectionsKept ==
  /\ main_menu_idx' = main_menu_idx
  /\ custom_menu_idx' = custom_menu_idx
  /\ load_state' = load_state
  /\ load_program_idx' = load_program_idx
  /\ create_state' = create_state
  /\ s_current_time_unit_idx' = s_current_time_unit_idx
  /\ s_set_value' = s_set_value
  /\ s_set_int' = s_set_int
  /\ temp_program_loops' = temp_program_loops
  /\ temp_program_name' = temp_program_name
  /\ temp_add_another' = temp_add_another
  /\ current_program' = current_program
  /\ saved_programs' = saved_programs

\* C20: the lid check preempts the other transitions of its tick. When the lid
\* is sampled open in a tick in which the run's remaining time has reached 0,
\* or the button is held for a cancel or pressed for an acknowledgement, the
\* tick ends in the interlock's cancelled state (UV off, MainMenu, Simple Idle,
\* no cursor; no Done sub-state entered, RunDone not set, no step advanced) and
\* the tick's rotation and press change no menu index, selection or wizard
\* value.
C20_LidCheckPreempts ==
  [][LidPreemptsTick =>
       /\ uv' = 0 /\ main_state' = MODE_MAIN_MENU
       /\ simple_state' = S_IDLE /\ c_start_ts' = None
       /\ run_state' # C_RUN_DONE
       /\ c_run_current_step' = c_run_current_step
       /\ c_run_current_loop' = c_run_current_loop
       /\ SelectionsKept]_vars

\* C20: the cancelled state of the interlock on a Simple run (the start
\* timestamp of the run is still set, which no other way out of Running
\* leaves), with the lid sampled open and the button held.
C20_StoppedByLidWithButtonHeld ==
  /\ main_state = MODE_MAIN_MENU /\ simple_state = S_IDLE
  /\ s_start_ts # None /\ uv = 0
  /\ is_lid_open /\ btn = "hold"

\* the menu index, the Load selection and the current program are as before,
\* and the wizard is not entered
MenuAndLoadKept ==
  /\ custom_menu_idx' = custom_menu_idx
  /\ load_state' = load_state
  /\ load_program_idx' = load_program_idx
  /\ current_program' = current_program
  /\ main_state' # MODE_CUSTOM_CREATE

\* C21: priority in the Custom menu. While a run cursor exists, the tick's
\* rotation and presses change neither the menu index, the Load selection nor
\* the current program. While RunDone is set and no cursor exists, a tick
\* without a press changes nothing, and a press clears the flag and sets the
\* mode to MainMenu, the menu and the Load selection staying as they are. So
\* the menu navigation and the Load flow act only without cursor and flag.
C21_CustomMenuPriority ==
  [][main_state = MODE_CUSTOM_MENU =>
       /\ c_start_ts # None => MenuAndLoadKept
       /\ c_start_ts = None /\ run_state = C_RUN_DONE =>
            /\ MenuAndLoadKept
            /\ btn' = "up" =>
                 /\ main_state' = main_state /\ run_state' = run_state
                 /\ c_start_ts' = None /\ uv' = uv
                 /\ c_run_current_step' = c_run_current_step
                 /\ c_run_current_loop' = c_run_current_loop
                 /\ saved_programs' = saved_programs
            /\ btn' # "up" =>
                 run_state' # C_RUN_DONE /\ main_state' = MODE_MAIN_MENU
       /\ ~MenuAndLoadKept => c_start_ts = None /\ run_state # C_RUN_DONE]_vars

\* C21: a run that has gone on to a later step-execution takes a tick with a
\* short press, the Custom menu standing on Run.
C21_ShortPressDuringRun ==
  /\ main_state = MODE_CUSTOM_MENU /\ c_start_ts # None
  /\ Len(run_log) >= 2 /\ btn = "tap" /\ ~is_lid_open
  /\ custom_menu_idx = C_MENU_RUN /\ load_state = LOAD_NONE

\* the finished-job test as the indicator code of the tick evaluates it: on the
\* sub-states the tick starts in
DoneAtTick == simple_state = S_DONE \/ run_state = C_RUN_DONE

\* C22: indicator policy. In every tick exactly one of done-blink, alarm-blink
\* and static-normal is in force: done-blink whenever Simple is Done or RunDone
\* is set, also with the lid open; alarm-blink only with the lid open and
\* neither Done condition; and the static normal colours otherwise.
C22_IndicatorPolicy ==
  [][/\ DoneAtTick => indicator' = "done"
     /\ indicator' = "alarm" => is_lid_open' /\ ~DoneAtTick
     /\ ~DoneAtTick /\ ~is_lid_open' => indicator' = "normal"]_vars

\* C22: the same policy in every tick that does not start with the green blink
\* left on the pixels by a Done sub-state that ended without acknowledgement
\* (no Done condition, no pending restore of the normal colours).
C22_IndicatorPolicyWhereRestored ==
  [][(indicator = "done" /\ ~DoneAtTick => lid_was_open) =>
       /\ DoneAtTick => indicator' = "done"
       /\ indicator' = "alarm" => is_lid_open' /\ ~DoneAtTick
       /\ ~DoneAtTick /\ ~is_lid_open' => indicator' = "normal"]_vars

\* C22: the green blink is left without a pending restore only by Simple mode
\* entered from MainMenu over a Done sub-state that the cancel of an expired
\* run had left behind.
C22_StaleDoneOnlyFromSimpleDone ==
  [][indicator' = "done" /\ ~DoneAtTick' /\ ~lid_was_open' =>
       \/ simple_state = S_DONE /\ main_state = MODE_MAIN_MENU
       \/ indicator = "done" /\ ~DoneAtTick /\ ~lid_was_open]_vars

\* C22: Simple mode in Idle with the lid closed and the pixels still driven
\* with the green blink of a Done sub-state that is over.
C22_GreenLeftOnPixels ==
  /\ main_state = MODE_SIMPLE /\ simple_state = S_IDLE /\ run_state # C_RUN_DONE
  /\ ~is_lid_open /\ ~lid_was_open /\ btn = "up"
  /\ indicator = "done"

\* the tick enters the Load sub-flow from the menu navigation
LoadEntered ==
  main_state = MODE_CUSTOM_MENU /\ load_state = LOAD_NONE /\ load_state' # LOAD_NONE

\* the tick cancels a run by the held button
CancelHeld ==
  /\ btn' = "hold"
  /\ \/ main_state = MODE_SIMPLE /\ simple_state = S_RUNNING
     \/ main_state = MODE_CUSTOM_MENU /\ c_start_ts # None

\* C23: the rotation and the press of a tick are applied by one sub-state only
\* and one sub-state transition is taken. The tick that enters the Load
\* sub-flow from the navigation leaves the Load selector where the entry puts
\* it (index 0); the tick that cancels a run takes the cancel only: no Done
\* sub-state, no RunDone flag, no cursor, no step advanced.
C23_OneSubStatePerTick ==
  [][/\ LoadEntered => load_program_idx' = 0
     /\ CancelHeld =>
          /\ simple_state' # S_DONE /\ run_state' # C_RUN_DONE
          /\ c_start_ts' = None
          /\ c_run_current_step' = c_run_current_step
          /\ c_run_current_loop' = c_run_current_loop]_vars

\* C23: the Load sub-flow just entered by a short press on the menu item Load,
\* with the selector already on the second stored program.
C23_LoadEnteredAndRotated ==
  /\ main_state = MODE_CUSTOM_MENU /\ load_state = C_LOAD_SELECT
  /\ btn = "tap" /\ ~is_lid_open
  /\ Len(saved_programs) = 2 /\ load_program_idx = 1

\* the tick reads the button down in the press that was down, and had already
\* triggered a transition, when the tick before ended
SamePressDown == press_spent /\ btn' # "up"

\* mode and sub-states are as before the tick
SubStatesKept ==
  /\ main_state' = main_state /\ simple_state' = simple_state
  /\ create_state' = create_state /\ load_state' = load_state
  /\ run_state' = run_state
  /\ (c_start_ts' = None) = (c_start_ts = None)

\* C24: a press is consumed as one edge. Once a press has triggered a
\* transition, a later tick that still reads this press down takes no
\* press-triggered transition: outside a run the mode and the sub-states stay,
\* a run that is on is not cancelled by it, and a UV output that is off stays
\* off, so one continuous hold does not carry the machine from a menu or a
\* cancelled run into a state with UV on.
C24_PressIsOneEdge ==
  [][SamePressDown =>
       /\ ~Driving(Cur) => SubStatesKept
       /\ Driving(Cur) /\ ~is_lid_open' => main_state' = main_state
       /\ uv = 0 => uv' = 0]_vars

\* C24: a Simple run is on with UV output, started by a tick that read the
\* button still down in a press that had triggered a transition before.
C24_HoldStartedRun ==
  /\ main_state = MODE_SIMPLE /\ simple_state = S_RUNNING /\ uv > 0
  /\ btn = "hold" /\ press_spent
  /\ now = s_start_ts

\* the tick confirms Set Intensity of the wizard with a short press
AppendConfirm ==
  main_state = MODE_CUSTOM_CREATE /\ create_state = C_CREATE_SET_INTENS /\ btn' = "tap"

\* the tick confirms Add Step of the wizard with a short press
AddStepConfirm ==
  main_state = MODE_CUSTOM_CREATE /\ create_state = C_CREATE_ADD_STEP /\ btn' = "tap"

\* the unit, value and intensity the operator has selected for the step
SelectedStep ==
  [u |-> s_current_time_unit_idx, v |-> s_set_value, i |-> s_set_int]

\* C25: in the wizard, the tick that confirms Set Intensity appends exactly
\* one step to the program, made of the unit, value and intensity selected for
\* it, after the steps authored before; every other tick of the wizard
\* (authoring a further step, setting loops or name, saving, cancelling)
\* leaves the step list as it is, and the save stores the program with these
\* steps; confirming Add Step on Yes goes to Set Time Unit with unit index 0,
\* on No to Set Loops.
C25_StepListAppendOnly ==
  [][main_state = MODE_CUSTOM_CREATE =>
       /\ current_program'.steps =
            IF AppendConfirm THEN Append(current_program.steps, SelectedStep)
            ELSE current_program.steps
       /\ \A k \in 1..Len(saved_programs') :
            saved_programs'[k].name = current_program'.name
              /\ saved_programs' # saved_programs
              => saved_programs'[k].steps = current_program.steps
       /\ AddStepConfirm =>
            IF temp_add_another
            THEN create_state' = C_CREATE_SET_TIME_UNIT /\ s_current_time_unit_idx' = 0
            ELSE create_state' = C_CREATE_SET_LOOPS]_vars

\* C25: a program of two steps has been authored and saved; the steps differ
\* in unit, value and intensity and stand in the order they were authored in.
C25_TwoStepsSaved ==
  /\ main_state = MODE_CUSTOM_MENU /\ scope = "closed"
  /\ Len(saved_programs) = 1
  /\ saved_programs[1].loops = 2
  /\ saved_programs[1].steps =
       << [u |-> 0, v |-> UnitDef(0), i |-> 50],
          [u |-> 1, v |-> UnitDef(1) + UnitStep(1), i |-> 50 + INT_STEP] >>

\* C26: at every tick boundary, if the UV output is on then the mode is Simple
\* with sub-state Running, or the mode is the Custom menu with a run cursor
\* present: the UV output is off in the main menu, in the wizard, in the
\* Simple setup and Done states and in the Custom menu without a cursor.
C26_UvOnOnlyInRunStates ==
  uv # 0 =>
    \/ main_state = MODE_SIMPLE /\ simple_state = S_RUNNING
    \/ main_state = MODE_CUSTOM_MENU /\ c_start_ts # None

\* C26: what holds of the UV output in every mode: it is on only while a
\* Simple run is being timed or a run cursor exists.
C26_UvOnOnlyWithRunOrCursor ==
  uv # 0 =>
    \/ main_state = MODE_SIMPLE /\ simple_state = S_RUNNING
    \/ c_start_ts # None

\* C26: the UV output is on in the main menu at the end of a tick that has
\* sampled the lid open.
C26_UvOnInMainMenuLidOpen ==
  main_state = MODE_MAIN_MENU /\ uv # 0 /\ is_lid_open /\ btn = "up"

\* the names of the store are pairwise distinct
DistinctNames(store) ==
  \A j, k \in 1..Len(store) : store[j].name = store[k].name => j = k

\* the step has an intensity in [INT_MIN, INT_MAX] and a value in the range of
\* its unit
StepInLimits(st) ==
  /\ st.i \in INT_MIN..INT_MAX
  /\ st.u \in 0..(NumUnits - 1)
  /\ st.v \in UnitMin(st.u)..UnitMax(st.u)

\* the program has at least one step, a loop count in [1, 99] and steps within
\* their limits
WellFormedProgram(p) ==
  /\ Len(p.steps) >= 1
  /\ p.loops \in LOOPS_MIN..LOOPS_MAX
  /\ \A j \in 1..Len(p.steps) : StepInLimits(p.steps[j])

\* the store positions the tick has added or written
Stored ==
  {k \in 1..Len(saved_programs') :
     IF k > Len(saved_programs) THEN TRUE ELSE saved_programs'[k] # saved_programs[k]}

\* C27: the store loaded at start-up has pairwise distinct names, and so has
\* the store after every tick; every program a tick of the Create wizard adds
\* to the store or replaces in it has at least one step, a loop count in
\* 1..99, and in each step an intensity in 0..100 and a value within
\* [min, max] of the step's unit.
C27_StoreWellFormed ==
  /\ [](DistinctNames(saved_programs))
  /\ [][\A k \in Stored : WellFormedProgram(saved_programs'[k])]_vars

\* C27: the wizard has replaced the stored program P-01 by a program of the
\* maximum loop count, and has left the other stored program as it was.
C27_ReplacedByMaxLoops ==
  /\ main_state = MODE_CUSTOM_MENU /\ scope = "closed"
  /\ Len(saved_programs) = 2
  /\ saved_programs[1].name = ProgA.name
  /\ saved_programs[1].loops = LOOPS_MAX
  /\ saved_programs[1] # ProgA
  /\ saved_programs[2] = ProgB

====
